---- MODULE Spec2Model ----
(***************************************************************************)
(* Expense-extraction pipeline of financial-ai-bot: the category           *)
(* vocabulary, the ExpenseService store, the ExpenseExtractorAgent (model  *)
(* path and heuristic fallback), AgentService.extractExpenses, the         *)
(* RateLimiter of the rate-limit middleware, and the Evolution webhook     *)
(* handler with UserService.createUser.                                    *)
(*                                                                         *)
(* Conventions.  A JavaScript string is a sequence of one-character        *)
(* strings.  Amounts and confidences are counted in hundredths (35.50 is   *)
(* 3550, 0.8 is 80).  A JavaScript number that may be NaN is a record      *)
(* [nan, v]; among the amounts of the store NaN is the value NotANumber.   *)
(* A function that may throw returns [threw, value, error].                *)
(***************************************************************************)
EXTENDS Integers, Sequences, FiniteSets, TLC

VARIABLES
  expenses,     \* ExpenseService.expenses, the Map in insertion order
  nextId,       \* ExpenseService.nextId
  createdBy,    \* history: createdBy[n] is the user whose request took id n
  call,         \* the call in progress, or the last one, with its result
  rateLimiter,  \* the RateLimiter: its config and its requests Map
  now,          \* Date.now()
  shadow,       \* history: a limiter given the same calls and never cleaned,
                \* and the requests granted per key and window
  users,        \* the rows of the users table
  tasks         \* the webhook requests in flight, each with its position

vars == <<expenses, nextId, createdBy, call, rateLimiter, now, shadow, users, tasks>>

otherVars == <<rateLimiter, now, shadow, users, tasks>>

----------------------------------------------------------------------------
(* JavaScript string primitives *)

UpperChars ==
  <<"A", "B", "C", "D", "E", "F", "G", "H", "I", "J", "K", "L", "M", "N", "O", "P",
    "Q", "R", "S", "T", "U", "V", "W", "X", "Y", "Z", "Á", "Â", "Ã", "Ç", "É", "Ê",
    "Í", "Ó", "Ô", "Õ", "Ú">>

LowerChars ==
  <<"a", "b", "c", "d", "e", "f", "g", "h", "i", "j", "k", "l", "m", "n", "o", "p",
    "q", "r", "s", "t", "u", "v", "w", "x", "y", "z", "á", "â", "ã", "ç", "é", "ê",
    "í", "ó", "ô", "õ", "ú">>

\* String.prototype.toLowerCase on one character
toLowerCaseChar(c) ==
  IF \E i \in DOMAIN UpperChars : UpperChars[i] = c
  THEN LowerChars[CHOOSE i \in DOMAIN UpperChars : UpperChars[i] = c]
  ELSE c

\* String.prototype.toUpperCase on one character
toUpperCaseChar(c) ==
  IF \E i \in DOMAIN LowerChars : LowerChars[i] = c
  THEN UpperChars[CHOOSE i \in DOMAIN LowerChars : LowerChars[i] = c]
  ELSE c

toLowerCase(s) == [i \in 1..Len(s) |-> toLowerCaseChar(s[i])]

toUpperCase(s) == [i \in 1..Len(s) |-> toUpperCaseChar(s[i])]

\* the characters matched by \s and removed by trim()
IsWhiteSpace(c) == c \in {" ", "\n", "\t", "\r"}

RECURSIVE trimStart(_)
trimStart(s) ==
  IF Len(s) > 0 /\ IsWhiteSpace(s[1]) THEN trimStart(Tail(s)) ELSE s

RECURSIVE trimEnd(_)
trimEnd(s) ==
  IF Len(s) > 0 /\ IsWhiteSpace(s[Len(s)])
  THEN trimEnd(SubSeq(s, 1, Len(s) - 1))
  ELSE s

trim(s) == trimEnd(trimStart(s))

\* whether sub occurs in s at position i (1-based)
startsWithAt(s, sub, i) ==
  /\ i + Len(sub) - 1 <= Len(s)
  /\ \A k \in 1..Len(sub) : s[i + k - 1] = sub[k]

\* String.prototype.includes
includes(s, sub) == \E i \in 1..(Len(s) + 1) : startsWithAt(s, sub, i)

\* Array.prototype.join
RECURSIVE join(_, _)
join(parts, sep) ==
  IF Len(parts) = 0 THEN <<>>
  ELSE IF Len(parts) = 1 THEN parts[1]
  ELSE parts[1] \o sep \o join(Tail(parts), sep)

----------------------------------------------------------------------------
(* middleware/error-handler.ts and the built-in Error *)

Error(message) == [name |-> "Error", message |-> message]

ValidationError(message) == [name |-> "ValidationError", message |-> message]

TypeError(message) == [name |-> "TypeError", message |-> message]

Return(v) == [threw |-> FALSE, value |-> v]

Throw(e) == [threw |-> TRUE, error |-> e]

----------------------------------------------------------------------------
(* constants/expense-categories.ts *)

VALID_EXPENSE_CATEGORIES ==
  << <<"a", "l", "i", "m", "e", "n", "t", "a", "ç", "ã", "o">>,
     <<"t", "r", "a", "n", "s", "p", "o", "r", "t", "e">>,
     <<"s", "a", "ú", "d", "e">>,
     <<"e", "d", "u", "c", "a", "ç", "ã", "o">>,
     <<"l", "a", "z", "e", "r">>,
     <<"m", "o", "r", "a", "d", "i", "a">>,
     <<"v", "e", "s", "t", "u", "á", "r", "i", "o">>,
     <<"s", "e", "r", "v", "i", "ç", "o", "s">>,
     <<"c", "o", "m", "b", "u", "s", "t", "í", "v", "e", "l">>,
     <<"f", "a", "r", "m", "á", "c", "i", "a">>,
     <<"s", "u", "p", "e", "r", "m", "e", "r", "c", "a", "d", "o">>,
     <<"r", "e", "s", "t", "a", "u", "r", "a", "n", "t", "e">>,
     <<"o", "u", "t", "r", "o", "s">> >>

Includes(list, x) == \E i \in DOMAIN list : list[i] = x

isValidExpenseCategory(category) ==
  Includes(VALID_EXPENSE_CATEGORIES, toLowerCase(category))

getValidExpenseCategories == VALID_EXPENSE_CATEGORIES

InvalidCategoryMessage(category) ==
  <<"C", "a", "t", "e", "g", "o", "r", "i", "a", " ", "i", "n", "v", "á", "l", "i", "d", "a", ":", " ", "\"">> \o category \o <<"\"", ".", " ", "C", "a", "t", "e", "g", "o", "r", "i", "a", "s", " ", "v", "á", "l", "i", "d", "a", "s", ":", " ">>
    \o join(VALID_EXPENSE_CATEGORIES, <<",", " ">>)

\* a variant of normalizeExpenseCategory that lower-cases without trimming
normalizeExpenseCategory_noTrim(category) ==
  LET normalized == toLowerCase(category)
  IN  IF ~isValidExpenseCategory(normalized)
      THEN Throw(Error(InvalidCategoryMessage(category)))
      ELSE Return(normalized)

normalizeExpenseCategory(category) ==
  LET normalized == trim(toLowerCase(category))
  IN  IF ~isValidExpenseCategory(normalized)
      THEN Throw(Error(InvalidCategoryMessage(category)))
      ELSE Return(normalized)

----------------------------------------------------------------------------
(* JavaScript numbers, in hundredths *)

\* const x = v; then the rest of the body
With(v, Body(_)) == Body(v)

Num(v) == [nan |-> FALSE, v |-> v]

NaN == [nan |-> TRUE, v |-> 0]

Digits == <<"0", "1", "2", "3", "4", "5", "6", "7", "8", "9">>

IsDigit(c) == Includes(Digits, c)

DigitValue(c) == (CHOOSE i \in DOMAIN Digits : Digits[i] = c) - 1

\* the first index at or after i that holds no digit
RECURSIVE digitRunEnd(_, _)
digitRunEnd(s, i) ==
  IF i <= Len(s) /\ IsDigit(s[i]) THEN digitRunEnd(s, i + 1) ELSE i

\* the first index at or after i that holds no white space
RECURSIVE spaceRunEnd(_, _)
spaceRunEnd(s, i) ==
  IF i <= Len(s) /\ IsWhiteSpace(s[i]) THEN spaceRunEnd(s, i + 1) ELSE i

RECURSIVE digitsValue(_)
digitsValue(ds) ==
  IF Len(ds) = 0 THEN 0
  ELSE 10 * digitsValue(SubSeq(ds, 1, Len(ds) - 1)) + DigitValue(ds[Len(ds)])

\* the first two fraction digits as hundredths
fractionHundredths(ds) ==
  (IF Len(ds) >= 1 THEN 10 * DigitValue(ds[1]) ELSE 0)
    + (IF Len(ds) >= 2 THEN DigitValue(ds[2]) ELSE 0)

\* a decimal literal read from position b of s, with e the end of its integer
\* digits and f the end of its fraction digits (f = e when it has no dot)
readDecimal(s, b) ==
  With(digitRunEnd(s, b), LAMBDA e :
    With(IF e <= Len(s) /\ s[e] = "." THEN digitRunEnd(s, e + 1) ELSE e, LAMBDA f :
      [digits |-> (e - b) + (IF f > e THEN f - e - 1 ELSE 0),
       value |-> 100 * digitsValue(SubSeq(s, b, e - 1))
                   + fractionHundredths(SubSeq(s, e + 1, f - 1)),
       end |-> IF f > e /\ f - b > 1 THEN f ELSE e]))

IsSigned(s) == Len(s) > 0 /\ s[1] \in {"-", "+"}

Signed(s, magnitude) == IF Len(s) > 0 /\ s[1] = "-" THEN 0 - magnitude ELSE magnitude

\* the global parseFloat: leading white space, a sign, the longest decimal prefix
parseFloat(str) ==
  With(trimStart(str), LAMBDA s :
    With(readDecimal(s, IF IsSigned(s) THEN 2 ELSE 1), LAMBDA d :
      IF d.digits = 0 THEN NaN ELSE Num(Signed(s, d.value))))

\* ToNumber on a string: the whole trimmed string must be a decimal literal
StringToNumber(str) ==
  With(trim(str), LAMBDA s :
    With(readDecimal(s, IF IsSigned(s) THEN 2 ELSE 1), LAMBDA d :
      IF Len(s) = 0 THEN Num(0)
      ELSE IF d.digits = 0 \/ d.end <= Len(s) THEN NaN
      ELSE Num(Signed(s, d.value))))

RECURSIVE natToString(_)
natToString(n) ==
  IF n < 10 THEN <<Digits[n + 1]>>
  ELSE natToString(n \div 10) \o <<Digits[(n % 10) + 1]>>

\* String(n) of a number
NumberToString(n) ==
  LET a == IF n < 0 THEN 0 - n ELSE n
      fp == a % 100
      frac == IF fp = 0 THEN <<>>
              ELSE IF fp % 10 = 0 THEN <<".", Digits[(fp \div 10) + 1]>>
              ELSE <<".", Digits[(fp \div 10) + 1], Digits[(fp % 10) + 1]>>
  IN  (IF n < 0 THEN <<"-">> ELSE <<>>) \o natToString(a \div 100) \o frac

\* Number.prototype.toFixed(2) of a number >= 0
toFixed2(n) ==
  natToString(n \div 100) \o <<".", Digits[((n % 100) \div 10) + 1], Digits[(n % 10) + 1]>>

\* the value NaN among amounts, which are integers in hundredths
NotANumber == -(2^30)

\* !amount
IsFalsyNumber(a) == a = NotANumber \/ a = 0

\* a <= b, false when either is NaN
LessOrEqual(a, b) == a # NotANumber /\ b # NotANumber /\ a <= b

\* a + b, NaN when either is NaN
Plus(a, b) == IF a = NotANumber \/ b = NotANumber THEN NotANumber ELSE a + b

MathMax(a, b) == IF a.nan \/ b.nan THEN NaN ELSE IF a.v >= b.v THEN a ELSE b

MathMin(a, b) == IF a.nan \/ b.nan THEN NaN ELSE IF a.v <= b.v THEN a ELSE b

\* a variant of MathRoundDiv that truncates
MathRoundDiv_floor(num, den) == num \div den

\* Math.round(x) for x = num / den, den > 0: floor(x + 0.5)
MathRoundDiv(num, den) == (2 * num + den) \div (2 * den)

----------------------------------------------------------------------------
(* JSON values of a model reply *)

JUndefined == [t |-> "undefined"]

JNull == [t |-> "null"]

JNum(n) == [t |-> "number", n |-> n]

JStr(s) == [t |-> "string", s |-> s]

JArray(items) == [t |-> "array", items |-> items]

\* the truthiness that || and ! test
Truthy(v) ==
  CASE v.t = "undefined" -> FALSE
    [] v.t = "null" -> FALSE
    [] v.t = "number" -> v.n # 0
    [] v.t = "string" -> Len(v.s) > 0
    [] OTHER -> TRUE

\* obj.field: undefined when the field is absent or obj is a primitive
Get(obj, field) ==
  IF obj.t = "object" /\ field \in DOMAIN obj THEN obj[field] ELSE JUndefined

\* String(v)
StringOf(v) ==
  CASE v.t = "undefined" -> <<"u", "n", "d", "e", "f", "i", "n", "e", "d">>
    [] v.t = "null" -> <<"n", "u", "l", "l">>
    [] v.t = "number" -> NumberToString(v.n)
    [] v.t = "string" -> v.s
    [] OTHER -> <<"[", "o", "b", "j", "e", "c", "t", " ", "O", "b", "j", "e", "c", "t", "]">>

\* ToNumber(v), as Math.max applies it to its arguments
ToNumber(v) ==
  CASE v.t = "undefined" -> NaN
    [] v.t = "null" -> Num(0)
    [] v.t = "number" -> Num(v.n)
    [] v.t = "string" -> StringToNumber(v.s)
    [] OTHER -> NaN

----------------------------------------------------------------------------
(* providers/openai-provider.ts                                            *)
(* A reply text is a sequence of tokens [k, v]: an opening or closing      *)
(* code fence, the language tag json, white space, a JSON document (v is   *)
(* its value) or prose that is no JSON.                                    *)

Tok(k) == [k |-> k, v |-> JUndefined]

JsonTok(v) == [k |-> "json", v |-> v]

\* the remote chat completion: it fails, or it answers with a content
RemoteError == [ok |-> FALSE, content |-> <<>>]

RemoteContent(content) == [ok |-> TRUE, content |-> content]

\* OpenAIProvider.generate: one chat.completions.create request; a failure
\* and an empty content are both rethrown as Error.  requests counts the
\* create calls made.
generate(remote) ==
  IF ~remote.ok
  THEN [threw |-> TRUE, requests |-> 1,
        error |-> Error(<<"F", "a", "i", "l", "e", "d", " ", "t", "o", " ", "g", "e", "n", "e", "r", "a", "t", "e", " ", "r", "e", "s", "p", "o", "n", "s", "e", ":", " ", "r", "e", "q", "u", "e", "s", "t", " ", "f", "a", "i", "l", "e", "d">>)]
  ELSE IF Len(remote.content) = 0
  THEN [threw |-> TRUE, requests |-> 1,
        error |-> Error(<<"F", "a", "i", "l", "e", "d", " ", "t", "o", " ", "g", "e", "n", "e", "r", "a", "t", "e", " ", "r", "e", "s", "p", "o", "n", "s", "e", ":", " ", "N", "o", " ", "r", "e", "s", "p", "o", "n", "s", "e", " ", "g", "e", "n", "e", "r", "a", "t", "e", "d", " ", "f", "r", "o", "m", " ", "O", "p", "e", "n", "A", "I">>)]
  ELSE [threw |-> FALSE, requests |-> 1, value |-> remote.content]

----------------------------------------------------------------------------
(* agents/expense-extractor-agent.ts: the heuristic fallback *)

DescriptionKeywords ==
  << <<"a", "l", "m", "o", "ç", "o">>, <<"j", "a", "n", "t", "a", "r">>, <<"l", "a", "n", "c", "h", "e">>, <<"c", "o", "m", "i", "d", "a">>, <<"r", "e", "s", "t", "a", "u", "r", "a", "n", "t", "e">>, <<"p", "a", "d", "a", "r", "i", "a">>,
     <<"u", "b", "e", "r">>, <<"t", "a", "x", "i">>, <<"ô", "n", "i", "b", "u", "s">>, <<"m", "e", "t", "r", "o">>, <<"g", "a", "s", "o", "l", "i", "n", "a">>, <<"c", "o", "m", "b", "u", "s", "t", "í", "v", "e", "l">>,
     <<"m", "é", "d", "i", "c", "o">>, <<"h", "o", "s", "p", "i", "t", "a", "l">>, <<"f", "a", "r", "m", "á", "c", "i", "a">>, <<"r", "e", "m", "é", "d", "i", "o">>, <<"c", "o", "n", "s", "u", "l", "t", "a">>,
     <<"s", "u", "p", "e", "r", "m", "e", "r", "c", "a", "d", "o">>, <<"m", "e", "r", "c", "a", "d", "o">>, <<"a", "ç", "o", "u", "g", "u", "e">>,
     <<"c", "i", "n", "e", "m", "a">>, <<"t", "e", "a", "t", "r", "o">>, <<"s", "h", "o", "w">>, <<"f", "e", "s", "t", "a">>,
     <<"l", "u", "z">>, <<"á", "g", "u", "a">>, <<"g", "á", "s">>, <<"i", "n", "t", "e", "r", "n", "e", "t">>, <<"a", "l", "u", "g", "u", "e", "l">>,
     <<"r", "o", "u", "p", "a">>, <<"c", "a", "l", "ç", "a", "d", "o">>, <<"l", "o", "j", "a">>, <<"s", "h", "o", "p", "p", "i", "n", "g">> >>

categoryKeywords ==
  << [category |-> <<"a", "l", "i", "m", "e", "n", "t", "a", "ç", "ã", "o">>,
      keywords |-> <<<<"c", "o", "m", "i", "d", "a">>, <<"a", "l", "m", "o", "ç", "o">>, <<"j", "a", "n", "t", "a", "r">>, <<"l", "a", "n", "c", "h", "e">>, <<"r", "e", "s", "t", "a", "u", "r", "a", "n", "t", "e">>, <<"p", "a", "d", "a", "r", "i", "a">>>>],
     [category |-> <<"t", "r", "a", "n", "s", "p", "o", "r", "t", "e">>,
      keywords |-> <<<<"u", "b", "e", "r">>, <<"t", "a", "x", "i">>, <<"ô", "n", "i", "b", "u", "s">>, <<"m", "e", "t", "r", "o">>, <<"g", "a", "s", "o", "l", "i", "n", "a">>, <<"c", "o", "m", "b", "u", "s", "t", "í", "v", "e", "l">>,
                     <<"e", "s", "t", "a", "c", "i", "o", "n", "a", "m", "e", "n", "t", "o">>>>],
     [category |-> <<"s", "a", "ú", "d", "e">>,
      keywords |-> <<<<"m", "é", "d", "i", "c", "o">>, <<"h", "o", "s", "p", "i", "t", "a", "l">>, <<"c", "l", "í", "n", "i", "c", "a">>, <<"e", "x", "a", "m", "e">>, <<"c", "o", "n", "s", "u", "l", "t", "a">>,
                     <<"m", "e", "d", "i", "c", "a", "m", "e", "n", "t", "o">>>>],
     [category |-> <<"e", "d", "u", "c", "a", "ç", "ã", "o">>,
      keywords |-> <<<<"c", "u", "r", "s", "o">>, <<"l", "i", "v", "r", "o">>, <<"e", "s", "c", "o", "l", "a">>, <<"u", "n", "i", "v", "e", "r", "s", "i", "d", "a", "d", "e">>, <<"m", "a", "t", "e", "r", "i", "a", "l">>>>],
     [category |-> <<"l", "a", "z", "e", "r">>,
      keywords |-> <<<<"c", "i", "n", "e", "m", "a">>, <<"t", "e", "a", "t", "r", "o">>, <<"s", "h", "o", "w">>, <<"f", "e", "s", "t", "a">>, <<"v", "i", "a", "g", "e", "m">>, <<"h", "o", "t", "e", "l">>>>],
     [category |-> <<"m", "o", "r", "a", "d", "i", "a">>,
      keywords |-> <<<<"a", "l", "u", "g", "u", "e", "l">>, <<"c", "o", "n", "d", "o", "m", "í", "n", "i", "o">>, <<"l", "u", "z">>, <<"á", "g", "u", "a">>, <<"g", "á", "s">>, <<"i", "n", "t", "e", "r", "n", "e", "t">>>>],
     [category |-> <<"v", "e", "s", "t", "u", "á", "r", "i", "o">>,
      keywords |-> <<<<"r", "o", "u", "p", "a">>, <<"c", "a", "l", "ç", "a", "d", "o">>, <<"l", "o", "j", "a">>, <<"s", "h", "o", "p", "p", "i", "n", "g">>>>],
     [category |-> <<"s", "e", "r", "v", "i", "ç", "o", "s">>,
      keywords |-> <<<<"m", "a", "n", "u", "t", "e", "n", "ç", "ã", "o">>, <<"r", "e", "p", "a", "r", "o">>, <<"s", "e", "r", "v", "i", "ç", "o">>, <<"c", "o", "n", "s", "e", "r", "t", "o">>>>],
     [category |-> <<"s", "u", "p", "e", "r", "m", "e", "r", "c", "a", "d", "o">>,
      keywords |-> <<<<"s", "u", "p", "e", "r", "m", "e", "r", "c", "a", "d", "o">>, <<"m", "e", "r", "c", "a", "d", "o">>, <<"a", "ç", "o", "u", "g", "u", "e">>, <<"p", "a", "d", "a", "r", "i", "a">>>>] >>

\* where the number of a match of /(?:R\$\s*)?\d+(?:[.,]\d{2})?/ anchored at i
\* starts, 0 when the pattern does not match at i
numberStartAt(s, i) ==
  With(spaceRunEnd(s, i + 2), LAMBDA j :
    IF startsWithAt(s, <<"R", "$">>, i) /\ j <= Len(s) /\ IsDigit(s[j]) THEN j
    ELSE IF i <= Len(s) /\ IsDigit(s[i]) THEN i
    ELSE 0)

\* the index after a match whose number starts at j: the digits, then a dot
\* or comma followed by two digits when they are there
numberEndAt(s, j) ==
  With(digitRunEnd(s, j), LAMBDA e :
    IF /\ e + 2 <= Len(s)
       /\ s[e] \in {".", ","}
       /\ IsDigit(s[e + 1])
       /\ IsDigit(s[e + 2])
    THEN e + 3
    ELSE e)

\* the matches of the global regular expression from i on, left to right,
\* each [from, to)
RECURSIVE moneyMatches(_, _)
moneyMatches(s, i) ==
  IF i > Len(s) THEN <<>>
  ELSE With(numberStartAt(s, i), LAMBDA j :
         IF j = 0 THEN moneyMatches(s, i + 1)
         ELSE With(numberEndAt(s, j), LAMBDA e :
                <<[from |-> i, to |-> e]>> \o moneyMatches(s, e)))

\* text.split(regex): the segments between the matches
textParts(s, ms) ==
  [k \in 1..(Len(ms) + 1) |->
     SubSeq(s,
            IF k = 1 THEN 1 ELSE ms[k - 1].to,
            IF k = Len(ms) + 1 THEN Len(s) ELSE ms[k].from - 1)]

\* match.replace(/[R$\s]/g, "")
RECURSIVE stripCurrency(_)
stripCurrency(m) ==
  IF Len(m) = 0 THEN <<>>
  ELSE IF m[1] \in {"R", "$"} \/ IsWhiteSpace(m[1]) THEN stripCurrency(Tail(m))
  ELSE <<m[1]>> \o stripCurrency(Tail(m))

\* str.replace(",", "."): the first comma only
RECURSIVE replaceFirstComma(_)
replaceFirstComma(m) ==
  IF Len(m) = 0 THEN <<>>
  ELSE IF m[1] = "," THEN <<".">> \o Tail(m)
  ELSE <<m[1]>> \o replaceFirstComma(Tail(m))

\* the index after the first word of a string that starts with no white space
RECURSIVE wordEnd(_, _)
wordEnd(s, i) ==
  IF i <= Len(s) /\ ~IsWhiteSpace(s[i]) THEN wordEnd(s, i + 1) ELSE i

\* s.split(/\s+/) of a trimmed string
RECURSIVE splitWords(_)
splitWords(s) ==
  IF Len(s) = 0 THEN <<>>
  ELSE With(wordEnd(s, 1), LAMBDA e :
         <<SubSeq(s, 1, e - 1)>> \o splitWords(trimStart(SubSeq(s, e, Len(s)))))

capitalize(w) == <<toUpperCaseChar(w[1])>> \o Tail(w)

Least(indices) == CHOOSE i \in indices : \A j \in indices : i <= j

Greatest(indices) == CHOOSE i \in indices : \A j \in indices : i >= j

IsLongWord(word) == Len(word) > 2

\* a variant of extractDescriptionFromContext that takes the last long word
extractDescriptionFromContext_lastWord(context, amount) ==
  With(<<" ", "-", " ", "R", "$", " ">> \o toFixed2(amount), LAMBDA suffix :
    With({i \in DOMAIN DescriptionKeywords : includes(context, DescriptionKeywords[i])},
         LAMBDA found :
      IF found # {} THEN capitalize(DescriptionKeywords[Least(found)]) \o suffix
      ELSE With(SelectSeq(splitWords(trim(context)), IsLongWord), LAMBDA words :
             IF Len(words) > 0 THEN capitalize(words[Len(words)]) \o suffix
             ELSE <<"G", "a", "s", "t", "o">> \o suffix)))

\* the description of a candidate: the first description keyword that occurs
\* in the context, else its first word longer than two characters, else Gasto
extractDescriptionFromContext(context, amount) ==
  With(<<" ", "-", " ", "R", "$", " ">> \o toFixed2(amount), LAMBDA suffix :
    With({i \in DOMAIN DescriptionKeywords : includes(context, DescriptionKeywords[i])},
         LAMBDA found :
      IF found # {} THEN capitalize(DescriptionKeywords[Least(found)]) \o suffix
      ELSE With(SelectSeq(splitWords(trim(context)), IsLongWord), LAMBDA words :
             IF Len(words) > 0 THEN capitalize(words[1]) \o suffix
             ELSE <<"G", "a", "s", "t", "o">> \o suffix)))

\* a variant of categorizeByKeywords in which the last category with a
\* keyword wins
categorizeByKeywords_last(text) ==
  With(toLowerCase(text), LAMBDA textLower :
    With({i \in DOMAIN categoryKeywords :
            \E k \in DOMAIN categoryKeywords[i].keywords :
              includes(textLower, categoryKeywords[i].keywords[k])},
         LAMBDA hits :
      IF hits # {} THEN categoryKeywords[Greatest(hits)].category ELSE <<"o", "u", "t", "r", "o", "s">>))

\* a variant of categorizeByKeywords that labels a text without keywords as
\* unknown
categorizeByKeywords_unknown(text) ==
  With(toLowerCase(text), LAMBDA textLower :
    With({i \in DOMAIN categoryKeywords :
            \E k \in DOMAIN categoryKeywords[i].keywords :
              includes(textLower, categoryKeywords[i].keywords[k])},
         LAMBDA hits :
      IF hits # {} THEN categoryKeywords[Least(hits)].category ELSE <<"u", "n", "k", "n", "o", "w", "n">>))

categorizeByKeywords(text) ==
  With(toLowerCase(text), LAMBDA textLower :
    With({i \in DOMAIN categoryKeywords :
            \E k \in DOMAIN categoryKeywords[i].keywords :
              includes(textLower, categoryKeywords[i].keywords[k])},
         LAMBDA hits :
      IF hits # {} THEN categoryKeywords[Least(hits)].category ELSE <<"o", "u", "t", "r", "o", "s">>))

FallbackConfidence == 40

DefaultConfidence == 80

\* a variant of matchAmount that leaves the decimal comma in place
matchAmount_noComma(text, m) ==
  parseFloat(stripCurrency(SubSeq(text, m.from, m.to - 1)))

\* parseFloat(match.replace(/[R$\s]/g, "").replace(",", "."))
matchAmount(text, m) ==
  parseFloat(replaceFirstComma(stripCurrency(SubSeq(text, m.from, m.to - 1))))

\* a variant of fallbackCandidate with the model path's default confidence
fallbackCandidate_default(amount, fullContext) ==
  [description |-> extractDescriptionFromContext(fullContext, amount),
   amount |-> amount,
   category |-> categorizeByKeywords(fullContext),
   currency |-> <<"B", "R", "L">>,
   confidence |-> Num(DefaultConfidence)]

\* the object pushed for a match with a positive amount
fallbackCandidate(amount, fullContext) ==
  [description |-> extractDescriptionFromContext(fullContext, amount),
   amount |-> amount,
   category |-> categorizeByKeywords(fullContext),
   currency |-> <<"B", "R", "L">>,
   confidence |-> Num(FallbackConfidence)]

\* matches.forEach((match, index) => ...), from index on
RECURSIVE forEachMatch(_, _, _, _)
forEachMatch(text, ms, parts, index) ==
  IF index > Len(ms) THEN <<>>
  ELSE With(matchAmount(text, ms[index]), LAMBDA amount :
         (IF ~amount.nan /\ amount.v > 0
          THEN <<fallbackCandidate(amount.v,
                                   toLowerCase(parts[index] \o <<" ">> \o parts[index + 1]))>>
          ELSE <<>>)
           \o forEachMatch(text, ms, parts, index + 1))

fallbackExtraction(text) ==
  With(moneyMatches(text, 1), LAMBDA ms :
    forEachMatch(text, ms, textParts(text, ms), 1))

----------------------------------------------------------------------------
(* agents/expense-extractor-agent.ts: the model path *)

\* response.trim()
RECURSIVE trimTokens(_)
trimTokens(r) ==
  IF Len(r) > 0 /\ r[1].k = "ws" THEN trimTokens(Tail(r))
  ELSE IF Len(r) > 0 /\ r[Len(r)].k = "ws" THEN trimTokens(SubSeq(r, 1, Len(r) - 1))
  ELSE r

RECURSIVE dropLeadingSpace(_)
dropLeadingSpace(r) ==
  IF Len(r) > 0 /\ r[1].k = "ws" THEN dropLeadingSpace(Tail(r)) ELSE r

RECURSIVE dropTrailingSpace(_)
dropTrailingSpace(r) ==
  IF Len(r) > 0 /\ r[Len(r)].k = "ws"
  THEN dropTrailingSpace(SubSeq(r, 1, Len(r) - 1))
  ELSE r

\* .replace(/^```json\s*/, "")
stripOpeningFence(r) ==
  IF Len(r) >= 2 /\ r[1].k = "fence" /\ r[2].k = "jsonTag"
  THEN dropLeadingSpace(SubSeq(r, 3, Len(r)))
  ELSE r

\* .replace(/\s*```$/, "")
stripClosingFence(r) ==
  IF Len(r) >= 1 /\ r[Len(r)].k = "fence"
  THEN dropTrailingSpace(SubSeq(r, 1, Len(r) - 1))
  ELSE r

IsNotSpace(tok) == tok.k # "ws"

\* JSON.parse: one JSON document, white space allowed around it
JSONparse(r) ==
  With(SelectSeq(r, IsNotSpace), LAMBDA doc :
    IF Len(doc) = 1 /\ doc[1].k = "json"
    THEN Return(doc[1].v)
    ELSE Throw([name |-> "SyntaxError", message |-> <<"U", "n", "e", "x", "p", "e", "c", "t", "e", "d", " ", "t", "o", "k", "e", "n">>]))

\* Math.min(Math.max(expense.confidence || 0.8, 0), 1)
coerceConfidence(v) ==
  MathMin(MathMax(IF Truthy(v) THEN ToNumber(v) ELSE Num(DefaultConfidence), Num(0)),
          Num(100))

\* parseFloat(String(expense.amount)) || 0
coerceAmount(v) ==
  With(parseFloat(StringOf(v)), LAMBDA parsed :
    IF parsed.nan \/ parsed.v = 0 THEN 0 ELSE parsed.v)

\* a variant of coerceExpense that also replaces a label outside the vocabulary
coerceExpense_defaultUnknown(expense) ==
  [description |-> IF Truthy(Get(expense, "description"))
                   THEN Get(expense, "description").s ELSE <<>>,
   amount |-> coerceAmount(Get(expense, "amount")),
   category |-> IF /\ Truthy(Get(expense, "category"))
                   /\ isValidExpenseCategory(trim(Get(expense, "category").s))
                THEN Get(expense, "category").s ELSE <<"o", "u", "t", "r", "o", "s">>,
   currency |-> IF Truthy(Get(expense, "currency"))
                THEN Get(expense, "currency").s ELSE <<"B", "R", "L">>,
   confidence |-> coerceConfidence(Get(expense, "confidence"))]

\* the callback of parsedResponse.expenses.map; the string fields are strings,
\* null or absent in every reply considered
coerceExpense(expense) ==
  [description |-> IF Truthy(Get(expense, "description"))
                   THEN Get(expense, "description").s ELSE <<>>,
   amount |-> coerceAmount(Get(expense, "amount")),
   category |-> IF Truthy(Get(expense, "category"))
                THEN Get(expense, "category").s ELSE <<"o", "u", "t", "r", "o", "s">>,
   currency |-> IF Truthy(Get(expense, "currency"))
                THEN Get(expense, "currency").s ELSE <<"B", "R", "L">>,
   confidence |-> coerceConfidence(Get(expense, "confidence"))]

\* parsedResponse.expenses.map(...) and the test before it; the callback
\* throws a TypeError on a null entry
mapExpenses(list) ==
  IF ~Truthy(list) \/ list.t # "array"
  THEN [threw |-> FALSE, hasExpenses |-> FALSE, value |-> <<>>]
  ELSE IF \E i \in DOMAIN list.items : list.items[i].t = "null"
  THEN Throw(TypeError(<<"C", "a", "n", "n", "o", "t", " ", "r", "e", "a", "d", " ", "p", "r", "o", "p", "e", "r", "t", "i", "e", "s", " ", "o", "f", " ", "n", "u", "l", "l">>))
  ELSE [threw |-> FALSE, hasExpenses |-> TRUE,
        value |-> [i \in DOMAIN list.items |-> coerceExpense(list.items[i])]]

\* what the try block does with the reply that generate returned: clean,
\* parse, read .expenses (a TypeError on null), map
parseModelReply(response) ==
  With(JSONparse(stripClosingFence(stripOpeningFence(trimTokens(response)))),
       LAMBDA parsed :
    IF parsed.threw THEN Throw(parsed.error)
    ELSE IF parsed.value.t = "null"
    THEN Throw(TypeError(<<"C", "a", "n", "n", "o", "t", " ", "r", "e", "a", "d", " ", "p", "r", "o", "p", "e", "r", "t", "i", "e", "s", " ", "o", "f", " ", "n", "u", "l", "l">>))
    ELSE mapExpenses(Get(parsed.value, "expenses")))

\* what extractExpensesWithLLM hands back: the candidates, with the path that
\* produced them, the number of generate calls made and the requests sent
Extracted(list, path, gen) ==
  [threw |-> FALSE, value |-> list, path |-> path, generateCalls |-> 1,
   requests |-> gen.requests]

\* a variant of extractExpensesWithLLM without the catch around generate
extractExpensesWithLLM_propagates(text, remote) ==
  With(generate(remote), LAMBDA gen :
    IF gen.threw
    THEN [threw |-> TRUE, error |-> gen.error, path |-> "none", generateCalls |-> 1,
          requests |-> gen.requests]
    ELSE With(parseModelReply(gen.value), LAMBDA reply :
           IF reply.threw \/ ~reply.hasExpenses
           THEN Extracted(fallbackExtraction(text), "fallback", gen)
           ELSE Extracted(reply.value, "model", gen)))

\* a variant of extractExpensesWithLLM that gives up with no candidates when
\* the reply has no expenses array
extractExpensesWithLLM_empty(text, remote) ==
  With(generate(remote), LAMBDA gen :
    IF gen.threw THEN Extracted(fallbackExtraction(text), "fallback", gen)
    ELSE With(parseModelReply(gen.value), LAMBDA reply :
           IF reply.threw THEN Extracted(fallbackExtraction(text), "fallback", gen)
           ELSE IF ~reply.hasExpenses THEN Extracted(<<>>, "fallback", gen)
           ELSE Extracted(reply.value, "model", gen)))

\* a variant of extractExpensesWithLLM that asks the model once more before it
\* falls back
extractExpensesWithLLM_retry(text, remote) ==
  With(generate(remote), LAMBDA gen :
    With(IF gen.threw THEN generate(remote) ELSE gen, LAMBDA last :
      With(IF last.threw
           THEN Extracted(fallbackExtraction(text), "fallback", last)
           ELSE With(parseModelReply(last.value), LAMBDA reply :
                  IF reply.threw \/ ~reply.hasExpenses
                  THEN Extracted(fallbackExtraction(text), "fallback", last)
                  ELSE Extracted(reply.value, "model", last)),
           LAMBDA extracted :
        IF gen.threw
        THEN [extracted EXCEPT !.generateCalls = 2,
                               !.requests = gen.requests + last.requests]
        ELSE extracted)))

extractExpensesWithLLM(text, remote) ==
  With(generate(remote), LAMBDA gen :
    IF gen.threw THEN Extracted(fallbackExtraction(text), "fallback", gen)
    ELSE With(parseModelReply(gen.value), LAMBDA reply :
           IF reply.threw \/ ~reply.hasExpenses
           THEN Extracted(fallbackExtraction(text), "fallback", gen)
           ELSE Extracted(reply.value, "model", gen)))

RECURSIVE sumAmounts(_)
sumAmounts(list) ==
  IF Len(list) = 0 THEN 0 ELSE Plus(list[1].amount, sumAmounts(Tail(list)))

\* [...new Set(values)]: the values in order of first insertion
RECURSIVE uniqueInOrder(_)
uniqueInOrder(values) ==
  IF Len(values) = 0 THEN <<>>
  ELSE With(uniqueInOrder(SubSeq(values, 1, Len(values) - 1)), LAMBDA before :
         IF Includes(before, values[Len(values)]) THEN before
         ELSE Append(before, values[Len(values)]))

RECURSIVE sumConfidence(_)
sumConfidence(list) ==
  IF Len(list) = 0 THEN 0 ELSE list[1].confidence.v + sumConfidence(Tail(list))

\* a variant of calculateConfidence without the test for an empty list: 0 / 0
calculateConfidence_noEmptyCase(list) ==
  IF Len(list) = 0 THEN NaN
  ELSE IF \E i \in DOMAIN list : list[i].confidence.nan THEN NaN
  ELSE Num(MathRoundDiv(sumConfidence(list), Len(list)))

calculateConfidence(list) ==
  IF Len(list) = 0 THEN Num(0)
  ELSE IF \E i \in DOMAIN list : list[i].confidence.nan THEN NaN
  ELSE Num(MathRoundDiv(sumConfidence(list), Len(list)))

\* a variant of the summary that counts only the first candidate
summaryOf_first(list) ==
  [totalExpenses |-> IF Len(list) = 0 THEN 0 ELSE 1,
   totalAmount |-> IF Len(list) = 0 THEN 0 ELSE list[1].amount,
   categories |-> IF Len(list) = 0 THEN <<>> ELSE <<list[1].category>>]

\* the summary object built in execute
summaryOf(list) ==
  [totalExpenses |-> Len(list),
   totalAmount |-> sumAmounts(list),
   categories |-> uniqueInOrder([i \in DOMAIN list |-> list[i].category])]

execute(input, remote) ==
  With(extractExpensesWithLLM(input.text, remote), LAMBDA extracted :
    IF extracted.threw
    THEN [success |-> FALSE,
          error |-> extracted.error.message,
          errorType |-> extracted.error.name,
          path |-> extracted.path,
          generateCalls |-> extracted.generateCalls,
          requests |-> extracted.requests]
    ELSE [success |-> TRUE,
          data |-> [expenses |-> extracted.value,
                    summary |-> summaryOf(extracted.value),
                    confidence |-> calculateConfidence(extracted.value)],
          path |-> extracted.path,
          generateCalls |-> extracted.generateCalls,
          requests |-> extracted.requests])

----------------------------------------------------------------------------
(* services/expense-service.ts: ExpenseService                             *)
(* The store is [expenses, nextId]; expenses keeps the Map's insertion     *)
(* order.  The createdAt and updatedAt stamps are left out.                *)

\* !s || s.trim().length === 0
IsBlank(s) == Len(s) = 0 \/ Len(trim(s)) = 0

\* a variant of validateExpenseData that skips the amount check
validateExpenseData_anyAmount(data) ==
  IF IsBlank(data.description)
  THEN Throw(ValidationError(<<"D", "e", "s", "c", "r", "i", "p", "t", "i", "o", "n", " ", "i", "s", " ", "r", "e", "q", "u", "i", "r", "e", "d", " ", "a", "n", "d", " ", "c", "a", "n", "n", "o", "t", " ", "b", "e", " ", "e", "m", "p", "t", "y">>))
  ELSE IF IsBlank(data.category)
  THEN Throw(ValidationError(<<"C", "a", "t", "e", "g", "o", "r", "y", " ", "i", "s", " ", "r", "e", "q", "u", "i", "r", "e", "d", " ", "a", "n", "d", " ", "c", "a", "n", "n", "o", "t", " ", "b", "e", " ", "e", "m", "p", "t", "y">>))
  ELSE IF ~isValidExpenseCategory(data.category)
  THEN Throw(ValidationError(<<"I", "n", "v", "a", "l", "i", "d", " ", "c", "a", "t", "e", "g", "o", "r", "y">>))
  ELSE IF IsBlank(data.currency)
  THEN Throw(ValidationError(<<"C", "u", "r", "r", "e", "n", "c", "y", " ", "i", "s", " ", "r", "e", "q", "u", "i", "r", "e", "d", " ", "a", "n", "d", " ", "c", "a", "n", "n", "o", "t", " ", "b", "e", " ", "e", "m", "p", "t", "y">>))
  ELSE Return(TRUE)

validateExpenseData(data) ==
  IF IsBlank(data.description)
  THEN Throw(ValidationError(<<"D", "e", "s", "c", "r", "i", "p", "t", "i", "o", "n", " ", "i", "s", " ", "r", "e", "q", "u", "i", "r", "e", "d", " ", "a", "n", "d", " ", "c", "a", "n", "n", "o", "t", " ", "b", "e", " ", "e", "m", "p", "t", "y">>))
  ELSE IF IsFalsyNumber(data.amount) \/ LessOrEqual(data.amount, 0)
  THEN Throw(ValidationError(<<"A", "m", "o", "u", "n", "t", " ", "i", "s", " ", "r", "e", "q", "u", "i", "r", "e", "d", " ", "a", "n", "d", " ", "m", "u", "s", "t", " ", "b", "e", " ", "g", "r", "e", "a", "t", "e", "r", " ", "t", "h", "a", "n", " ", "0">>))
  ELSE IF IsBlank(data.category)
  THEN Throw(ValidationError(<<"C", "a", "t", "e", "g", "o", "r", "y", " ", "i", "s", " ", "r", "e", "q", "u", "i", "r", "e", "d", " ", "a", "n", "d", " ", "c", "a", "n", "n", "o", "t", " ", "b", "e", " ", "e", "m", "p", "t", "y">>))
  ELSE IF ~isValidExpenseCategory(data.category)
  THEN Throw(ValidationError(<<"I", "n", "v", "a", "l", "i", "d", " ", "c", "a", "t", "e", "g", "o", "r", "y", ":", " ", "\"">> \o data.category
                               \o <<"\"", ".", " ", "V", "a", "l", "i", "d", " ", "c", "a", "t", "e", "g", "o", "r", "i", "e", "s", ":", " ">>
                               \o join(getValidExpenseCategories, <<",", " ">>)))
  ELSE IF IsBlank(data.currency)
  THEN Throw(ValidationError(<<"C", "u", "r", "r", "e", "n", "c", "y", " ", "i", "s", " ", "r", "e", "q", "u", "i", "r", "e", "d", " ", "a", "n", "d", " ", "c", "a", "n", "n", "o", "t", " ", "b", "e", " ", "e", "m", "p", "t", "y">>))
  ELSE Return(TRUE)

\* Map.prototype.set
MapSet(records, id, record) ==
  IF \E i \in DOMAIN records : records[i].id = id
  THEN [i \in DOMAIN records |-> IF records[i].id = id THEN record ELSE records[i]]
  ELSE Append(records, record)

\* a variant of createExpense that takes the id before it validates
createExpense_idFirst(store, data) ==
  With(validateExpenseData(data), LAMBDA checked :
    IF checked.threw
    THEN [threw |-> TRUE, error |-> checked.error,
          store |-> [store EXCEPT !.nextId = @ + 1]]
    ELSE With([id |-> natToString(store.nextId),
               description |-> data.description,
               amount |-> data.amount,
               category |-> normalizeExpenseCategory(data.category).value,
               currency |-> data.currency],
              LAMBDA expense :
           [threw |-> FALSE, value |-> expense,
            store |-> [expenses |-> MapSet(store.expenses, expense.id, expense),
                       nextId |-> store.nextId + 1]]))

createExpense(store, data) ==
  With(validateExpenseData(data), LAMBDA checked :
    IF checked.threw
    THEN [threw |-> TRUE, error |-> checked.error, store |-> store]
    ELSE With(normalizeExpenseCategory(data.category), LAMBDA normalizedCategory :
           IF normalizedCategory.threw
           THEN [threw |-> TRUE, error |-> normalizedCategory.error,
                 store |-> [store EXCEPT !.nextId = @ + 1]]
           ELSE With([id |-> natToString(store.nextId),
                      description |-> data.description,
                      amount |-> data.amount,
                      category |-> normalizedCategory.value,
                      currency |-> data.currency],
                     LAMBDA expense :
                  [threw |-> FALSE, value |-> expense,
                   store |-> [expenses |-> MapSet(store.expenses, expense.id, expense),
                              nextId |-> store.nextId + 1]])))

\* this.expenses.get(id): the record, or Missing
Missing == [t |-> "undefined"]

MapGet(records, id) ==
  IF \E i \in DOMAIN records : records[i].id = id
  THEN records[CHOOSE i \in DOMAIN records : records[i].id = id]
  ELSE Missing

\* Map.prototype.delete
MapDelete(records, id) == SelectSeq(records, LAMBDA r : r.id # id)

Reverse(s) == [i \in DOMAIN s |-> s[Len(s) + 1 - i]]

getExpense(store, id) == MapGet(store.expenses, id)

\* the filters on category and currency, the sort by creation time (newest
\* first; creation times are taken to be distinct) and the default page; the
\* records carry no time stamps, so the date filters are left out
getAllExpenses(store, query) ==
  LET byCategory ==
        IF "category" \notin DOMAIN query \/ Len(query.category) = 0
        THEN store.expenses
        ELSE SelectSeq(store.expenses,
                       LAMBDA e : toLowerCase(e.category) = toLowerCase(query.category))
      byCurrency ==
        IF "currency" \notin DOMAIN query \/ Len(query.currency) = 0
        THEN byCategory
        ELSE SelectSeq(byCategory,
                       LAMBDA e : toLowerCase(e.currency) = toLowerCase(query.currency))
  IN  Reverse(byCurrency)

\* totalAmount / totalExpenses is kept as the fraction [num, den]
getExpenseSummary(store, query) ==
  LET list == getAllExpenses(store, query)
  IN  [totalExpenses |-> Len(list),
       totalAmount |-> sumAmounts(list),
       categories |-> uniqueInOrder([i \in DOMAIN list |-> list[i].category]),
       currencies |-> uniqueInOrder([i \in DOMAIN list |-> list[i].currency]),
       averageAmount |-> IF Len(list) > 0
                         THEN [num |-> sumAmounts(list), den |-> Len(list)]
                         ELSE [num |-> 0, den |-> 1]]

\* { ...existingExpense, ...normalizedData }
Spread(existing, data) ==
  [f \in DOMAIN existing |-> IF f \in DOMAIN data THEN data[f] ELSE existing[f]]

updateExpense(store, id, data) ==
  IF MapGet(store.expenses, id) = Missing
  THEN [threw |-> FALSE, value |-> JNull, store |-> store]
  ELSE IF "description" \in DOMAIN data /\ IsBlank(data.description)
  THEN [threw |-> TRUE, error |-> ValidationError(<<"D", "e", "s", "c", "r", "i", "p", "t", "i", "o", "n", " ", "c", "a", "n", "n", "o", "t", " ", "b", "e", " ", "e", "m", "p", "t", "y">>),
        store |-> store]
  ELSE IF "amount" \in DOMAIN data /\ LessOrEqual(data.amount, 0)
  THEN [threw |-> TRUE, error |-> ValidationError(<<"A", "m", "o", "u", "n", "t", " ", "m", "u", "s", "t", " ", "b", "e", " ", "g", "r", "e", "a", "t", "e", "r", " ", "t", "h", "a", "n", " ", "0">>),
        store |-> store]
  ELSE IF "category" \in DOMAIN data /\ IsBlank(data.category)
  THEN [threw |-> TRUE, error |-> ValidationError(<<"C", "a", "t", "e", "g", "o", "r", "y", " ", "c", "a", "n", "n", "o", "t", " ", "b", "e", " ", "e", "m", "p", "t", "y">>),
        store |-> store]
  ELSE IF "category" \in DOMAIN data /\ ~isValidExpenseCategory(data.category)
  THEN [threw |-> TRUE,
        error |-> ValidationError(<<"I", "n", "v", "a", "l", "i", "d", " ", "c", "a", "t", "e", "g", "o", "r", "y", ":", " ", "\"">> \o data.category
                                    \o <<"\"", ".", " ", "V", "a", "l", "i", "d", " ", "c", "a", "t", "e", "g", "o", "r", "i", "e", "s", ":", " ">>
                                    \o join(getValidExpenseCategories, <<",", " ">>)),
        store |-> store]
  ELSE IF "currency" \in DOMAIN data /\ IsBlank(data.currency)
  THEN [threw |-> TRUE, error |-> ValidationError(<<"C", "u", "r", "r", "e", "n", "c", "y", " ", "c", "a", "n", "n", "o", "t", " ", "b", "e", " ", "e", "m", "p", "t", "y">>),
        store |-> store]
  ELSE IF "category" \in DOMAIN data /\ normalizeExpenseCategory(data.category).threw
  THEN [threw |-> TRUE, error |-> normalizeExpenseCategory(data.category).error,
        store |-> store]
  ELSE LET normalizedData ==
             IF "category" \in DOMAIN data
             THEN [data EXCEPT !.category = normalizeExpenseCategory(data.category).value]
             ELSE data
           updatedExpense == Spread(MapGet(store.expenses, id), normalizedData)
       IN  [threw |-> FALSE, value |-> updatedExpense,
            store |-> [store EXCEPT !.expenses = MapSet(store.expenses, id, updatedExpense)]]

deleteExpense(store, id) ==
  IF MapGet(store.expenses, id) = Missing
  THEN [value |-> FALSE, store |-> store]
  ELSE [value |-> TRUE,
        store |-> [store EXCEPT !.expenses = MapDelete(store.expenses, id)]]

----------------------------------------------------------------------------
(* services/agent-service.ts: AgentService *)

\* the argument of expenseService.createExpense for a candidate
createRequest(expense, category) ==
  [description |-> expense.description, amount |-> expense.amount,
   category |-> category, currency |-> expense.currency]

\* a variant of persistOne that hands the candidate's own category to createExpense
persistOne_unnormalized(expense, user, store) ==
  [outcome |-> createExpense(store, createRequest(expense, expense.category)),
   handed |-> <<createRequest(expense, expense.category)>>]

\* the body of the for loop: normalize the category, create the expense; a
\* candidate whose normalization or creation throws is logged and skipped.
\* handed lists the requests that reached createExpense.
persistOne(expense, user, store) ==
  With(normalizeExpenseCategory(expense.category), LAMBDA normalizedCategory :
    IF normalizedCategory.threw
    THEN [outcome |-> [threw |-> TRUE, error |-> normalizedCategory.error, store |-> store],
          handed |-> <<>>]
    ELSE [outcome |-> createExpense(store, createRequest(expense, normalizedCategory.value)),
          handed |-> <<createRequest(expense, normalizedCategory.value)>>])

\* a variant of persistExpenses that leaves the loop at the first failure
RECURSIVE persistExpenses_abort(_, _, _)
persistExpenses_abort(list, user, store) ==
  IF Len(list) = 0
  THEN [store |-> store, persistedExpenses |-> <<>>, handed |-> <<>>, attempted |-> <<>>]
  ELSE With(persistOne(list[1], user, store), LAMBDA one :
         IF one.outcome.threw
         THEN [store |-> one.outcome.store, persistedExpenses |-> <<>>,
               handed |-> one.handed, attempted |-> <<list[1]>>]
         ELSE With(persistExpenses_abort(Tail(list), user, one.outcome.store), LAMBDA rest :
                [store |-> rest.store,
                 persistedExpenses |-> <<one.outcome.value>> \o rest.persistedExpenses,
                 handed |-> one.handed \o rest.handed,
                 attempted |-> <<list[1]>> \o rest.attempted]))

\* for (const expense of result.data.expenses) { try ... catch ... }
\* attempted lists the candidates the loop body ran for.
RECURSIVE persistExpenses(_, _, _)
persistExpenses(list, user, store) ==
  IF Len(list) = 0
  THEN [store |-> store, persistedExpenses |-> <<>>, handed |-> <<>>, attempted |-> <<>>]
  ELSE With(persistOne(list[1], user, store), LAMBDA one :
         With(persistExpenses(Tail(list), user, one.outcome.store), LAMBDA rest :
           [store |-> rest.store,
            persistedExpenses |-> IF one.outcome.threw THEN rest.persistedExpenses
                                  ELSE <<one.outcome.value>> \o rest.persistedExpenses,
            handed |-> one.handed \o rest.handed,
            attempted |-> <<list[1]>> \o rest.attempted]))

\* the part of extractExpenses after the text check
extractAndPersist(text, user, remote, store) ==
  With(execute([text |-> text, language |-> "portuguese"], remote), LAMBDA result :
    IF ~result.success
    THEN [threw |-> TRUE, error |-> Error(result.error), store |-> store,
          generateCalls |-> result.generateCalls, path |-> result.path,
          candidates |-> <<>>, handed |-> <<>>, attempted |-> <<>>]
    ELSE With(persistExpenses(result.data.expenses, user, store), LAMBDA saved :
           [threw |-> FALSE,
            value |-> [success |-> TRUE,
                       data |-> [expenses |-> saved.persistedExpenses,
                                 summary |-> result.data.summary,
                                 confidence |-> result.data.confidence]],
            store |-> saved.store,
            generateCalls |-> result.generateCalls, path |-> result.path,
            candidates |-> result.data.expenses,
            handed |-> saved.handed, attempted |-> saved.attempted]))

\* a variant of extractExpenses that tests only !text
extractExpenses_noTrim(text, user, remote, store) ==
  IF Len(text) = 0
  THEN [threw |-> TRUE,
        error |-> ValidationError(<<"T", "e", "x", "t", " ", "i", "n", "p", "u", "t", " ", "i", "s", " ", "r", "e", "q", "u", "i", "r", "e", "d", " ", "a", "n", "d", " ", "c", "a", "n", "n", "o", "t", " ", "b", "e", " ", "e", "m", "p", "t", "y">>),
        store |-> store, generateCalls |-> 0, path |-> "none",
        candidates |-> <<>>, handed |-> <<>>, attempted |-> <<>>]
  ELSE extractAndPersist(text, user, remote, store)

extractExpenses(text, user, remote, store) ==
  IF IsBlank(text)
  THEN [threw |-> TRUE,
        error |-> ValidationError(<<"T", "e", "x", "t", " ", "i", "n", "p", "u", "t", " ", "i", "s", " ", "r", "e", "q", "u", "i", "r", "e", "d", " ", "a", "n", "d", " ", "c", "a", "n", "n", "o", "t", " ", "b", "e", " ", "e", "m", "p", "t", "y">>),
        store |-> store, generateCalls |-> 0, path |-> "none",
        candidates |-> <<>>, handed |-> <<>>, attempted |-> <<>>]
  ELSE extractAndPersist(text, user, remote, store)

----------------------------------------------------------------------------
(* middleware/rate-limit: RateLimiter                                      *)
(* The requests Map is a function from the keys it holds to their entries. *)
(* Times are in the unit of the clock.                                     *)

\* Map.prototype.set on the requests Map
Put(requests, key, entry) ==
  [k \in DOMAIN requests \cup {key} |-> IF k = key THEN entry ELSE requests[k]]

\* a variant of cleanup that also deletes the entries that reset right now
cleanup_inclusive(requests, time) ==
  [k \in {k \in DOMAIN requests : ~(requests[k].resetTime <= time)} |-> requests[k]]

\* delete every entry with resetTime < now
cleanup(requests, time) ==
  [k \in {k \in DOMAIN requests : ~(requests[k].resetTime < time)} |-> requests[k]]

\* a variant of isAllowed that denies only above max
isAllowed_offByOne(limiter, key, time) ==
  IF key \notin DOMAIN limiter.requests \/ limiter.requests[key].resetTime < time
  THEN [result |-> [allowed |-> TRUE,
                    remaining |-> limiter.config.max - 1,
                    resetTime |-> time + limiter.config.windowMs],
        requests |-> Put(limiter.requests, key,
                         [count |-> 1, resetTime |-> time + limiter.config.windowMs])]
  ELSE IF limiter.requests[key].count > limiter.config.max
  THEN [result |-> [allowed |-> FALSE,
                    remaining |-> 0,
                    resetTime |-> limiter.requests[key].resetTime],
        requests |-> limiter.requests]
  ELSE [result |-> [allowed |-> TRUE,
                    remaining |-> limiter.config.max - (limiter.requests[key].count + 1),
                    resetTime |-> limiter.requests[key].resetTime],
        requests |-> Put(limiter.requests, key,
                         [limiter.requests[key] EXCEPT !.count = @ + 1])]

\* isAllowed for a request with the given key at the given time: the result
\* and the requests Map afterwards
isAllowed(limiter, key, time) ==
  IF key \notin DOMAIN limiter.requests \/ limiter.requests[key].resetTime < time
  THEN [result |-> [allowed |-> TRUE,
                    remaining |-> limiter.config.max - 1,
                    resetTime |-> time + limiter.config.windowMs],
        requests |-> Put(limiter.requests, key,
                         [count |-> 1, resetTime |-> time + limiter.config.windowMs])]
  ELSE IF limiter.requests[key].count >= limiter.config.max
  THEN [result |-> [allowed |-> FALSE,
                    remaining |-> 0,
                    resetTime |-> limiter.requests[key].resetTime],
        requests |-> limiter.requests]
  ELSE [result |-> [allowed |-> TRUE,
                    remaining |-> limiter.config.max - (limiter.requests[key].count + 1),
                    resetTime |-> limiter.requests[key].resetTime],
        requests |-> Put(limiter.requests, key,
                         [limiter.requests[key] EXCEPT !.count = @ + 1])]

----------------------------------------------------------------------------
(* services/user-service.ts, routes/webhook.ts                             *)
(* The users table is the sequence of its rows.  A webhook body is a       *)
(* record that has the fields the request carries and no others.           *)

\* select().from(users).where(eq(users.whatsappNumber, whatsappNumber)): the
\* row, or null
getUserByWhatsAppNumber(rows, whatsappNumber) ==
  IF \E i \in DOMAIN rows : rows[i].whatsappNumber = whatsappNumber
  THEN rows[CHOOSE i \in DOMAIN rows : rows[i].whatsappNumber = whatsappNumber]
  ELSE JNull

\* db.insert(users).values(newUser).returning() under the unique constraint
\* on whatsapp_number
insertUser(rows, newUser) ==
  IF \E i \in DOMAIN rows : rows[i].whatsappNumber = newUser.whatsappNumber
  THEN [threw |-> TRUE,
        error |-> Error(<<"d", "u", "p", "l", "i", "c", "a", "t", "e", " ", "k", "e", "y", " ", "v", "a", "l", "u", "e", " ", "v", "i", "o", "l", "a", "t", "e", "s", " ", "u", "n", "i", "q", "u", "e", " ", "c", "o", "n", "s", "t", "r", "a", "i", "n", "t">>),
        rows |-> rows]
  ELSE With([id |-> Len(rows) + 1, whatsappNumber |-> newUser.whatsappNumber,
             name |-> newUser.name],
            LAMBDA user : [threw |-> FALSE, value |-> user, rows |-> Append(rows, user)])

\* remoteJid.split("@")[0]
RECURSIVE beforeAt(_)
beforeAt(s) ==
  IF Len(s) = 0 \/ s[1] = "@" THEN <<>> ELSE <<s[1]>> \o beforeAt(Tail(s))

\* webhookData.data.key?.remoteJid
remoteJidOf(webhookData) ==
  IF "key" \in DOMAIN webhookData.data /\ "remoteJid" \in DOMAIN webhookData.data.key
  THEN webhookData.data.key.remoteJid
  ELSE <<>>

extractWhatsAppNumberFromWebhook(webhookData) ==
  IF Len(remoteJidOf(webhookData)) = 0
  THEN JNull
  ELSE JStr(beforeAt(remoteJidOf(webhookData)))

\* webhookData.data.key?.fromMe, false when absent
fromMeOf(webhookData) ==
  /\ "key" \in DOMAIN webhookData.data
  /\ "fromMe" \in DOMAIN webhookData.data.key
  /\ webhookData.data.key.fromMe

\* the text of the message: the conversation, replaced by the text of the
\* extended text message when there is one
messageTextOf(webhookData) ==
  IF /\ "message" \in DOMAIN webhookData.data
     /\ "extendedTextMessage" \in DOMAIN webhookData.data.message
     /\ "text" \in DOMAIN webhookData.data.message.extendedTextMessage
     /\ Len(webhookData.data.message.extendedTextMessage.text) > 0
  THEN webhookData.data.message.extendedTextMessage.text
  ELSE IF /\ "message" \in DOMAIN webhookData.data
          /\ "conversation" \in DOMAIN webhookData.data.message
          /\ Len(webhookData.data.message.conversation) > 0
  THEN webhookData.data.message.conversation
  ELSE <<>>

\* webhookData.data.pushName || undefined, stored as name || null
pushNameOf(webhookData) ==
  IF "pushName" \in DOMAIN webhookData.data /\ Len(webhookData.data.pushName) > 0
  THEN JStr(webhookData.data.pushName)
  ELSE JNull

\* a request of the webhook with its position and what it has called so far
Task(body, pc, whatsappNumber, user, createUser, steps, httpStatus, response) ==
  [body |-> body, pc |-> pc, messageText |-> messageTextOf(body),
   whatsappNumber |-> whatsappNumber, user |-> user, createUser |-> createUser,
   steps |-> steps, httpStatus |-> httpStatus, response |-> response]

Answered(task, httpStatus, status, message) ==
  [task EXCEPT !.pc = "done", !.httpStatus = httpStatus,
               !.response = [status |-> status, message |-> message]]

\* the handler up to its first await: the answers given at once, or the call
\* of createUser, which starts with the select
receive(body) ==
  With(Task(body, "received", JNull, JNull, "none", {}, 200, JNull), LAMBDA task :
    IF Len(messageTextOf(body)) = 0
    THEN Answered(task, 200, "success", "No text content to process")
    ELSE IF ~fromMeOf(body)
    THEN Answered(task, 200, "success", "Message from bot skipped")
    ELSE IF extractWhatsAppNumberFromWebhook(body) = JNull
    THEN Answered(task, 200, "error", "Could not extract WhatsApp number")
    ELSE [task EXCEPT !.pc = "select",
                      !.whatsappNumber = extractWhatsAppNumberFromWebhook(body).s,
                      !.createUser = "called",
                      !.steps = {"createUser"}])

\* the catch of the handler
failed(task) == Answered(task, 500, "error", "Failed to process message")

----------------------------------------------------------------------------
(* The inputs: message texts, model replies, category labels *)

\* the longest expenses array of a model reply
MaxEntries == 2

\* extraction requests are accepted while nextId is at most MaxId
MaxId == 2

\* the most white space put on either side of a category label
MaxPad == 1

Texts ==
  { <<"a", "l", "m", "o", "ç", "o", " ", "3", "5", ",", "5", "0", " ", "e", " ", "u", "b", "e", "r", " ", "2", "0">>,
    <<"R", "$", " ", "0", " ", "m", "e", "r", "c", "a", "d", "o", " ", "1", "2">>,
    <<"o", "i">>,
    <<>>,
    <<" ", " ">> }

Users == {"u1", "u2"}

Obj(description, amount, category, currency, confidence) ==
  [t |-> "object", description |-> description, amount |-> amount,
   category |-> category, currency |-> currency, confidence |-> confidence]

CoffeeEntry ==
  Obj(JStr(<<"C", "o", "f", "f", "e", "e">>), JStr(<<"5", ".", "5">>), JStr(<<"r", "e", "s", "t", "a", "u", "r", "a", "n", "t", "e">>), JStr(<<"B", "R", "L">>), JNum(140))

\* the objects a model reply lists
Entries ==
  { CoffeeEntry,
    Obj(JStr(<<"U", "b", "e", "r">>), JNum(2000), JStr(<<"T", "r", "a", "n", "s", "p", "o", "r", "t", "e">>), JUndefined, JNum(90)),
    Obj(JStr(<<"R", "e", "f", "u", "n", "d">>), JNum(-500), JStr(<<"o", "u", "t", "r", "o", "s">>), JStr(<<"B", "R", "L">>), JNum(-30)),
    Obj(JStr(<<"G", "i", "f", "t">>), JStr(<<"a", "b", "c">>), JStr(<<"l", "a", "z", "e", "r">>), JStr(<<"U", "S", "D">>), JNum(0)),
    Obj(JStr(<<"B", "o", "o", "k">>), JNum(1000), JStr(<<"l", "i", "v", "r", "o", "s">>), JStr(<<"B", "R", "L">>), JStr(<<"h", "i", "g", "h">>)),
    [t |-> "object"] }

RECURSIVE SeqsUpTo(_, _)
SeqsUpTo(set, n) ==
  IF n = 0 THEN {<<>>}
  ELSE LET shorter == SeqsUpTo(set, n - 1)
       IN  shorter \cup {Append(s, x) : s \in shorter, x \in set}

\* the JSON documents a reply may hold
Documents ==
  { JNull,
    [t |-> "object"],
    [t |-> "object", expenses |-> JStr(<<"n", "o", "n", "e">>)],
    JNum(4200) }
  \cup {[t |-> "object", expenses |-> JArray(items)] : items \in SeqsUpTo(Entries, MaxEntries)}
  \cup {[t |-> "object", expenses |-> JArray(<<JNull>>)],
        [t |-> "object", expenses |-> JArray(<<CoffeeEntry, JNull>>)],
        [t |-> "object", expenses |-> JArray(<<JNum(700)>>)],
        [t |-> "object", expenses |-> JArray(<<
           Obj(JStr(<<"T", "e", "a">>), JNum(450), JStr(<<>>), JStr(<<"B", "R", "L">>), JNum(70)),
           Obj(JStr(<<"B", "u", "s">>), JNum(440), JNull, JNull, JNull)>>)]}

FencedDocument == [t |-> "object", expenses |-> JArray(<<CoffeeEntry>>)]

\* the reply texts: a bare document, a document in code fences with and
\* without the json tag, a document after prose, prose alone
Replies ==
  {<<JsonTok(d)>> : d \in Documents}
  \cup { <<Tok("fence"), Tok("jsonTag"), Tok("ws"), JsonTok(FencedDocument), Tok("ws"),
           Tok("fence")>>,
         <<Tok("fence"), Tok("ws"), JsonTok(FencedDocument), Tok("ws"), Tok("fence")>>,
         <<Tok("ws"), JsonTok(FencedDocument), Tok("ws")>>,
         <<Tok("prose"), Tok("ws"), JsonTok(FencedDocument)>>,
         <<Tok("prose")>> }

Remotes == {RemoteError, RemoteContent(<<>>)} \cup {RemoteContent(r) : r \in Replies}

\* the entries that differ in how persistence treats them: stored as given,
\* stored under a normalized label, refused for its amount, refused for its label
PipelineEntries ==
  {e \in Entries : Get(e, "description") \in
                     {JStr(<<"C", "o", "f", "f", "e", "e">>), JStr(<<"U", "b", "e", "r">>), JStr(<<"R", "e", "f", "u", "n", "d">>), JStr(<<"B", "o", "o", "k">>)}}

\* the outcomes of the model call explored for the whole pipeline
PipelineRemotes ==
  {RemoteError, RemoteContent(<<Tok("prose")>>)}
  \cup {RemoteContent(<<JsonTok([t |-> "object", expenses |-> JArray(items)])>>) :
          items \in SeqsUpTo(PipelineEntries, MaxEntries)}

Pad(n) == [i \in 1..n |-> " "]

Labels ==
  LET words == {VALID_EXPENSE_CATEGORIES[i] : i \in DOMAIN VALID_EXPENSE_CATEGORIES}
                 \cup {<<"c", "o", "m", "i", "d", "a">>, <<"i", "n", "v", "a", "l", "i", "d", "-", "c", "a", "t", "e", "g", "o", "r", "y">>, <<"o", "u", " ", "t", "r", "o", "s">>, <<>>}
      cased == words \cup {toUpperCase(w) : w \in words}
                 \cup {capitalize(w) : w \in words \ {<<>>}}
  IN  {Pad(l) \o w \o Pad(r) : w \in cased, l \in 0..MaxPad, r \in 0..MaxPad}

----------------------------------------------------------------------------
(* The state machine *)

\* the rate limiter as constructed, left alone
NoRateLimiter ==
  /\ rateLimiter = [config |-> [max |-> 1, windowMs |-> 1], requests |-> <<>>]
  /\ now = 0
  /\ shadow = [requests |-> <<>>, granted |-> <<>>]

\* an empty users table and no webhook request
NoWebhook ==
  /\ users = <<>>
  /\ tasks = <<>>

Idle == [op |-> "idle"]

Init ==
  /\ expenses = <<>>
  /\ nextId = 1
  /\ createdBy = <<>>
  /\ NoRateLimiter
  /\ NoWebhook
  /\ call = Idle

\* AgentService.extractExpenses, the whole handler
ExtractExpenses(text, user, remote) ==
  /\ call.op = "idle"
  /\ nextId <= MaxId
  /\ call' = [op |-> "extractExpenses", text |-> text, user |-> user,
              remote |-> remote,
              before |-> [expenses |-> expenses, nextId |-> nextId],
              result |-> extractExpenses(text, user, remote,
                                         [expenses |-> expenses, nextId |-> nextId])]
  /\ expenses' = call'.result.store.expenses
  /\ nextId' = call'.result.store.nextId
  /\ createdBy' = createdBy \o [n \in 1..(nextId' - nextId) |-> user]
  /\ UNCHANGED otherVars

\* the response (or the error) has been handed to the caller
ReturnToCaller ==
  /\ call.op # "idle"
  /\ call' = Idle
  /\ UNCHANGED <<expenses, nextId, createdBy, otherVars>>

Next ==
  \/ \E text \in Texts, user \in Users, remote \in PipelineRemotes :
       ExtractExpenses(text, user, remote)
  \/ ReturnToCaller

Spec == Init /\ [][Next]_vars

\* ExpenseExtractorAgent.execute on its own: one call per behaviour
InitExec ==
  /\ expenses = <<>>
  /\ nextId = 1
  /\ createdBy = <<>>
  /\ NoRateLimiter
  /\ NoWebhook
  /\ call \in {[op |-> "execute", pc |-> "start", text |-> text, remote |-> remote] :
                 text \in Texts, remote \in Remotes}

Execute ==
  /\ call.op = "execute"
  /\ call.pc = "start"
  /\ call' = [op |-> "execute", pc |-> "done", text |-> call.text, remote |-> call.remote,
              result |-> execute([text |-> call.text, language |-> "portuguese"],
                                 call.remote)]
  /\ UNCHANGED <<expenses, nextId, createdBy, otherVars>>

NextExec == Execute

SpecExec == InitExec /\ [][NextExec]_vars

\* normalizeExpenseCategory on its own, and applied again to its own result
InitNorm ==
  /\ expenses = <<>>
  /\ nextId = 1
  /\ createdBy = <<>>
  /\ NoRateLimiter
  /\ NoWebhook
  /\ call \in {[op |-> "normalize", pc |-> "start", label |-> label, category |-> label,
                  again |-> FALSE] : label \in Labels}

Normalize ==
  /\ call.op = "normalize"
  /\ call.pc = "start"
  /\ call' = [op |-> "normalize", pc |-> "done", label |-> call.label,
              category |-> call.category, again |-> call.again,
              result |-> normalizeExpenseCategory(call.category)]
  /\ UNCHANGED <<expenses, nextId, createdBy, otherVars>>

NormalizeAgain ==
  /\ call.op = "normalize"
  /\ call.pc = "done"
  /\ ~call.again
  /\ ~call.result.threw
  /\ call' = [op |-> "normalize", pc |-> "start", label |-> call.label,
              category |-> call.result.value, again |-> TRUE]
  /\ UNCHANGED <<expenses, nextId, createdBy, otherVars>>

NextNorm == Normalize \/ NormalizeAgain

SpecNorm == InitNorm /\ [][NextNorm]_vars


\* the longest candidate list given to calculateConfidence on its own
MaxList == 3

\* confidences in hundredths, as the candidates of either path may carry
Confidences == {0, 40, 45, 80, 100}

\* calculateConfidence on its own: one call per behaviour
InitConfidence ==
  /\ expenses = <<>>
  /\ nextId = 1
  /\ createdBy = <<>>
  /\ NoRateLimiter
  /\ NoWebhook
  /\ call \in {[op |-> "calculateConfidence", pc |-> "start",
                list |-> [i \in DOMAIN cs |-> [confidence |-> Num(cs[i])]]] :
                 cs \in SeqsUpTo(Confidences, MaxList)}

CalculateConfidence ==
  /\ call.op = "calculateConfidence"
  /\ call.pc = "start"
  /\ call' = [op |-> "calculateConfidence", pc |-> "done", list |-> call.list,
              result |-> calculateConfidence(call.list)]
  /\ UNCHANGED <<expenses, nextId, createdBy, otherVars>>

NextConfidence == CalculateConfidence

SpecConfidence == InitConfidence /\ [][NextConfidence]_vars

\* the requests of the expense routes: bodies of POST and PUT
CreateRequests ==
  { [description |-> <<"U", "b", "e", "r">>, amount |-> 2000, category |-> <<"T", "r", "a", "n", "s", "p", "o", "r", "t", "e">>,
     currency |-> <<"B", "R", "L">>],
    [description |-> <<"N", "o", "t", "h", "i", "n", "g">>, amount |-> 0, category |-> <<"o", "u", "t", "r", "o", "s">>,
     currency |-> <<"B", "R", "L">>],
    [description |-> <<" ">>, amount |-> 100, category |-> <<"o", "u", "t", "r", "o", "s">>,
     currency |-> <<"B", "R", "L">>],
    [description |-> <<"B", "o", "o", "k">>, amount |-> 1000, category |-> <<"l", "i", "v", "r", "o", "s">>,
     currency |-> <<"B", "R", "L">>],
    [description |-> <<"T", "e", "a">>, amount |-> 300, category |-> <<"o", "u", "t", "r", "o", "s">>,
     currency |-> <<>>] }

UpdateRequests ==
  { [amount |-> 999], [amount |-> 0], [amount |-> NotANumber], [category |-> <<"L", "A", "Z", "E", "R">>],
    [category |-> <<"l", "i", "v", "r", "o", "s">>], [description |-> <<>>], [currency |-> <<" ">>] }

Ids == {natToString(n) : n \in 1..MaxId}

\* the AuthenticatedUser that the routes pass along
UserObject(user) == [id |-> user, whatsappNumber |-> "+55"]

StoreNow == [expenses |-> expenses, nextId |-> nextId]

\* POST /expenses: expenseService.createExpense(expenseData, user)
CreateExpense(data, user) ==
  /\ call.op = "idle"
  /\ nextId <= MaxId
  /\ call' = [op |-> "createExpense", user |-> user, data |-> data, before |-> StoreNow,
              result |-> createExpense(StoreNow, data)]
  /\ expenses' = call'.result.store.expenses
  /\ nextId' = call'.result.store.nextId
  /\ createdBy' = createdBy \o [n \in 1..(nextId' - nextId) |-> user]
  /\ UNCHANGED otherVars

\* GET /expenses/:id: expenseService.getExpense(expenseId, user)
GetExpense(id, user) ==
  /\ call.op = "idle"
  /\ call' = [op |-> "getExpense", user |-> user, id |-> id, before |-> StoreNow,
              result |-> getExpense(StoreNow, id)]
  /\ UNCHANGED <<expenses, nextId, createdBy, otherVars>>

\* GET /expenses: expenseService.getAllExpenses(user, queryParams); the
\* method reads its first argument as the query
GetAllExpenses(user) ==
  /\ call.op = "idle"
  /\ call' = [op |-> "getAllExpenses", user |-> user, before |-> StoreNow,
              result |-> getAllExpenses(StoreNow, UserObject(user))]
  /\ UNCHANGED <<expenses, nextId, createdBy, otherVars>>

\* GET /expenses/summary: expenseService.getExpenseSummary(user, queryParams)
GetExpenseSummary(user) ==
  /\ call.op = "idle"
  /\ call' = [op |-> "getExpenseSummary", user |-> user, before |-> StoreNow,
              result |-> getExpenseSummary(StoreNow, UserObject(user))]
  /\ UNCHANGED <<expenses, nextId, createdBy, otherVars>>

\* PUT /expenses/:id: expenseService.updateExpense(expenseId, updateData, user)
UpdateExpense(id, data, user) ==
  /\ call.op = "idle"
  /\ call' = [op |-> "updateExpense", user |-> user, id |-> id, data |-> data,
              before |-> StoreNow, result |-> updateExpense(StoreNow, id, data)]
  /\ expenses' = call'.result.store.expenses
  /\ UNCHANGED <<nextId, createdBy, otherVars>>

\* DELETE /expenses/:id: expenseService.deleteExpense(expenseId, user)
DeleteExpense(id, user) ==
  /\ call.op = "idle"
  /\ call' = [op |-> "deleteExpense", user |-> user, id |-> id, before |-> StoreNow,
              result |-> deleteExpense(StoreNow, id)]
  /\ expenses' = call'.result.store.expenses
  /\ UNCHANGED <<nextId, createdBy, otherVars>>

NextStore ==
  \/ \E data \in CreateRequests, user \in Users : CreateExpense(data, user)
  \/ \E id \in Ids, user \in Users : GetExpense(id, user)
  \/ \E user \in Users : GetAllExpenses(user)
  \/ \E user \in Users : GetExpenseSummary(user)
  \/ \E id \in Ids, data \in UpdateRequests, user \in Users : UpdateExpense(id, data, user)
  \/ \E id \in Ids, user \in Users : DeleteExpense(id, user)
  \/ ReturnToCaller

SpecStore == Init /\ [][NextStore]_vars


\* words put before and after the amount of a message: none, a short word, a
\* word no list knows, a short word ahead of a long one, an upper-case word,
\* a keyword of every category and keywords that only one of the lists knows
ContextWords ==
  { <<>>, <<"o", "i">>, <<"p", "i", "z", "z", "a">>, <<"d", "e", " ", "o", "n", "t", "e", "m">>, <<"P", "I", "Z", "Z", "A">>, <<"a", "l", "m", "o", "ç", "o">>, <<"u", "b", "e", "r">>, <<"c", "o", "n", "s", "u", "l", "t", "a">>,
    <<"l", "i", "v", "r", "o">>, <<"c", "i", "n", "e", "m", "a">>, <<"l", "u", "z">>, <<"l", "o", "j", "a">>, <<"r", "e", "p", "a", "r", "o">>, <<"m", "e", "r", "c", "a", "d", "o">>, <<"f", "a", "r", "m", "á", "c", "i", "a">>,
    <<"p", "a", "d", "a", "r", "i", "a">>, <<"e", "s", "t", "a", "c", "i", "o", "n", "a", "m", "e", "n", "t", "o">> }

\* fallbackExtraction on its own, on a message with one amount between two
\* segments
InitFallback ==
  /\ expenses = <<>>
  /\ nextId = 1
  /\ createdBy = <<>>
  /\ NoRateLimiter
  /\ NoWebhook
  /\ call \in {[op |-> "fallbackExtraction", pc |-> "start", before |-> b, after |-> a,
                  text |-> b \o <<" ", "3", "0", " ">> \o a] : b \in ContextWords, a \in ContextWords}

FallbackExtraction ==
  /\ call.op = "fallbackExtraction"
  /\ call.pc = "start"
  /\ call' = [op |-> "fallbackExtraction", pc |-> "done", before |-> call.before,
              after |-> call.after, text |-> call.text,
              result |-> fallbackExtraction(call.text)]
  /\ UNCHANGED <<expenses, nextId, createdBy, otherVars>>

NextFallback == FallbackExtraction

SpecFallback == InitFallback /\ [][NextFallback]_vars


\* the last instant of the clock
MaxTime == 4

\* the largest configured max
MaxLimit == 2

\* the longest configured window
MaxWindow == 2

\* the keys that getKey gives for the requests explored
ClientKeys == {"10.0.0.1", "10.0.0.2"}

\* new RateLimiter({max, windowMs}) with a max of at least 1
InitRateLimit ==
  /\ expenses = <<>>
  /\ nextId = 1
  /\ createdBy = <<>>
  /\ call = Idle
  /\ NoWebhook
  /\ rateLimiter \in {[config |-> [max |-> max, windowMs |-> windowMs], requests |-> <<>>] :
                        max \in 1..MaxLimit, windowMs \in 1..MaxWindow}
  /\ now = 0
  /\ shadow = [requests |-> <<>>, granted |-> <<>>]

\* the requests granted to a key with the reset time of the result, counting
\* this one
Granted(key, result) ==
  IF ~result.allowed
  THEN shadow.granted
  ELSE Put(shadow.granted, key,
           [resetTime |-> result.resetTime,
            n |-> IF key \in DOMAIN shadow.granted
                     /\ shadow.granted[key].resetTime = result.resetTime
                  THEN shadow.granted[key].n + 1
                  ELSE 1])

\* rateLimitMiddleware: onRequest calls rateLimiter.isAllowed(request)
IsAllowed(key) ==
  /\ call' = [op |-> "isAllowed", key |-> key, time |-> now,
              before |-> rateLimiter.requests,
              result |-> isAllowed(rateLimiter, key, now).result,
              expected |-> isAllowed([rateLimiter EXCEPT !.requests = shadow.requests],
                                     key, now).result]
  /\ rateLimiter' = [rateLimiter EXCEPT !.requests = isAllowed(rateLimiter, key, now).requests]
  /\ shadow' = [requests |-> isAllowed([rateLimiter EXCEPT !.requests = shadow.requests],
                                       key, now).requests,
                granted |-> Granted(key, call'.result)]
  /\ UNCHANGED <<expenses, nextId, createdBy, now, users, tasks>>

\* the interval timer of the constructor fires
Cleanup ==
  /\ call' = [op |-> "cleanup", time |-> now, before |-> rateLimiter.requests]
  /\ rateLimiter' = [rateLimiter EXCEPT !.requests = cleanup(rateLimiter.requests, now)]
  /\ UNCHANGED <<expenses, nextId, createdBy, now, shadow, users, tasks>>

\* time passes
Tick ==
  /\ now < MaxTime
  /\ now' = now + 1
  /\ UNCHANGED <<expenses, nextId, createdBy, call, rateLimiter, shadow, users, tasks>>

NextRateLimit ==
  \/ \E key \in ClientKeys : IsAllowed(key)
  \/ Cleanup
  \/ Tick

SpecRateLimit == InitRateLimit /\ [][NextRateLimit]_vars


\* the webhook requests of a behaviour
MaxTasks == 2

WebhookBody(key, message) == [data |-> [key |-> key, message |-> message]]

\* the bodies explored: a text from a sender with fromMe false and absent, a
\* text sent by the bot itself to either of two chats, as a conversation and
\* as an extended text message, a message without text, a body without
\* remoteJid
WebhookBodies ==
  { WebhookBody([remoteJid |-> <<"5", "5", "1", "1", "@", "s", ".", "w", "h", "a", "t", "s", "a", "p", "p", ".", "n", "e", "t">>, fromMe |-> FALSE],
                [conversation |-> <<"u", "b", "e", "r", " ", "2", "0">>]),
    WebhookBody([remoteJid |-> <<"5", "5", "1", "1", "@", "s", ".", "w", "h", "a", "t", "s", "a", "p", "p", ".", "n", "e", "t">>],
                [conversation |-> <<"u", "b", "e", "r", " ", "2", "0">>]),
    WebhookBody([remoteJid |-> <<"5", "5", "1", "1", "@", "s", ".", "w", "h", "a", "t", "s", "a", "p", "p", ".", "n", "e", "t">>, fromMe |-> TRUE],
                [conversation |-> <<"u", "b", "e", "r", " ", "2", "0">>]),
    WebhookBody([remoteJid |-> <<"5", "5", "2", "2", "@", "s", ".", "w", "h", "a", "t", "s", "a", "p", "p", ".", "n", "e", "t">>, fromMe |-> TRUE],
                [conversation |-> <<"o", "i">>,
                 extendedTextMessage |-> [text |-> <<"m", "e", "r", "c", "a", "d", "o", " ", "1", "2">>]]),
    WebhookBody([remoteJid |-> <<"5", "5", "1", "1", "@", "s", ".", "w", "h", "a", "t", "s", "a", "p", "p", ".", "n", "e", "t">>, fromMe |-> TRUE],
                [imageMessage |-> TRUE]),
    WebhookBody([fromMe |-> TRUE], [conversation |-> <<"u", "b", "e", "r", " ", "2", "0">>]) }

\* the outcomes of the model call explored behind the webhook
WebhookRemotes ==
  { RemoteError,
    RemoteContent(<<JsonTok([t |-> "object", expenses |-> JArray(<<>>)])>>) }

InitWebhook ==
  /\ expenses = <<>>
  /\ nextId = 1
  /\ createdBy = <<>>
  /\ call = Idle
  /\ NoRateLimiter
  /\ users = <<>>
  /\ tasks = <<>>

\* POST /webhook/evolution-api arrives and runs to its first await
Receive(body) ==
  /\ Len(tasks) < MaxTasks
  /\ tasks' = Append(tasks, receive(body))
  /\ UNCHANGED <<expenses, nextId, createdBy, call, rateLimiter, now, shadow, users>>

\* createUser: the select of getUserByWhatsAppNumber completes; the user
\* found is returned, otherwise the insert is sent
SelectUser(t) ==
  /\ t \in DOMAIN tasks
  /\ tasks[t].pc = "select"
  /\ LET existingUser == getUserByWhatsAppNumber(users, tasks[t].whatsappNumber)
     IN  tasks' = [tasks EXCEPT ![t] =
                     IF existingUser # JNull
                     THEN [@ EXCEPT !.pc = "extract", !.user = existingUser,
                                    !.createUser = "returned",
                                    !.steps = @ \cup {"extractExpenses"}]
                     ELSE [@ EXCEPT !.pc = "insert"]]
  /\ UNCHANGED <<expenses, nextId, createdBy, call, rateLimiter, now, shadow, users>>

\* createUser: the insert completes, or fails on the unique constraint and
\* the handler answers from its catch
InsertUser(t) ==
  /\ t \in DOMAIN tasks
  /\ tasks[t].pc = "insert"
  /\ LET inserted == insertUser(users, [whatsappNumber |-> tasks[t].whatsappNumber,
                                        name |-> pushNameOf(tasks[t].body)])
     IN  /\ users' = inserted.rows
         /\ tasks' = [tasks EXCEPT ![t] =
                        IF inserted.threw
                        THEN failed([@ EXCEPT !.createUser = "threw"])
                        ELSE [@ EXCEPT !.pc = "extract", !.user = inserted.value,
                                       !.createUser = "returned",
                                       !.steps = @ \cup {"extractExpenses"}]]
  /\ UNCHANGED <<expenses, nextId, createdBy, call, rateLimiter, now, shadow>>

\* agentService.extractExpenses(messageText, user) completes
Extract(t, remote) ==
  /\ t \in DOMAIN tasks
  /\ tasks[t].pc = "extract"
  /\ nextId <= MaxId
  /\ LET agentResponse == extractExpenses(tasks[t].messageText, tasks[t].user, remote,
                                          [expenses |-> expenses, nextId |-> nextId])
     IN  /\ expenses' = agentResponse.store.expenses
         /\ nextId' = agentResponse.store.nextId
         /\ createdBy' = createdBy \o [n \in 1..(nextId' - nextId) |->
                                         tasks[t].whatsappNumber]
         /\ tasks' = [tasks EXCEPT ![t] =
                        IF agentResponse.threw
                        THEN failed(@)
                        ELSE IF Len(agentResponse.value.data.expenses) > 0
                        THEN [@ EXCEPT !.pc = "send",
                                       !.steps = @ \cup {"sendMessage"}]
                        ELSE Answered(@, 200, "success",
                                      "Message processed successfully")]
  /\ UNCHANGED <<call, rateLimiter, now, shadow, users>>

\* evolutionService.sendMessage completes or throws; the handler answers the
\* same either way
SendMessage(t, delivered) ==
  /\ t \in DOMAIN tasks
  /\ tasks[t].pc = "send"
  /\ tasks' = [tasks EXCEPT ![t] =
                 Answered(@, 200, "success", "Message processed successfully")]
  /\ UNCHANGED <<expenses, nextId, createdBy, call, rateLimiter, now, shadow, users>>

NextWebhook ==
  \/ \E body \in WebhookBodies : Receive(body)
  \/ \E t \in 1..MaxTasks : SelectUser(t)
  \/ \E t \in 1..MaxTasks : InsertUser(t)
  \/ \E t \in 1..MaxTasks, remote \in WebhookRemotes : Extract(t, remote)
  \/ \E t \in 1..MaxTasks, delivered \in BOOLEAN : SendMessage(t, delivered)

SpecWebhook == InitWebhook /\ [][NextWebhook]_vars
----------------------------------------------------------------------------
(* Properties *)

ExecDone == call.op = "execute" /\ call.pc = "done"

ExtractDone == call.op = "extractExpenses"

NormDone == call.op = "normalize" /\ call.pc = "done"

\* the JSON document of a reply after trimming and fence stripping
CleanParse(remote) ==
  JSONparse(stripClosingFence(stripOpeningFence(trimTokens(remote.content))))

\* the model call threw, or the cleaned reply is no valid JSON, or the parsed
\* value has no expenses array
ParseFailed(remote) ==
  \/ ~remote.ok
  \/ Len(remote.content) = 0
  \/ CleanParse(remote).threw
  \/ CleanParse(remote).value.t # "object"
  \/ "expenses" \notin DOMAIN CleanParse(remote).value
  \/ CleanParse(remote).value.expenses.t # "array"

\* C1: for every non-blank text and every outcome of the model call, execute
\* returns success = true with a data payload.
C1_ExecuteSucceeds ==
  (ExecDone /\ ~IsBlank(call.text)) =>
    /\ call.result.success
    /\ "data" \in DOMAIN call.result

\* a non-blank text whose model call failed, answered with success
C1_Witness ==
  /\ ExecDone
  /\ ~IsBlank(call.text)
  /\ ~call.remote.ok
  /\ call.result.success

\* C2: extractExpenses with an empty or white-space-only text is rejected with
\* a ValidationError: no generate call, no fallback, the store untouched.
C2_BlankTextRejected ==
  (ExtractDone /\ IsBlank(call.text)) =>
    /\ call.result.threw
    /\ call.result.error.name = "ValidationError"
    /\ call.result.generateCalls = 0
    /\ call.result.path = "none"
    /\ expenses = call.before.expenses
    /\ nextId = call.before.nextId

\* a white-space-only text was rejected
C2_Witness ==
  /\ ExtractDone
  /\ call.text = <<" ", " ">>
  /\ call.result.threw

\* C3: when the model call throws, the reply is no valid JSON or the parsed
\* value has no expenses array, the candidates are exactly the fallback
\* extraction of the text and no error is reported.
C3_FailureFallsBack ==
  (ExecDone /\ ParseFailed(call.remote)) =>
    /\ call.result.success
    /\ "error" \notin DOMAIN call.result
    /\ call.result.data.expenses = fallbackExtraction(call.text)

\* a prose reply answered with the two fallback candidates of the text
C3_Witness ==
  /\ ExecDone
  /\ call.remote.ok
  /\ Len(call.remote.content) > 0
  /\ CleanParse(call.remote).threw
  /\ call.result.success
  /\ Len(call.result.data.expenses) = 2

\* C4: every candidate of a successful extraction has amount > 0, on the model
\* path as on the fallback path.
C4_AmountsPositive ==
  (ExecDone /\ call.result.success) =>
    \A i \in DOMAIN call.result.data.expenses : call.result.data.expenses[i].amount > 0

\* the candidates of the extraction that the recorded call ran
Candidates == call.result.candidates

\* C5: extractExpenses stores a record only for candidates with amount > 0,
\* and the store never holds a record with amount <= 0.
C5_OnlyPositivePersisted ==
  /\ \A i \in DOMAIN expenses : expenses[i].amount > 0
  /\ (ExtractDone /\ ~call.result.threw) =>
       /\ \A i \in DOMAIN call.result.value.data.expenses :
            call.result.value.data.expenses[i].amount > 0
       /\ Len(call.result.value.data.expenses)
            <= Cardinality({i \in DOMAIN Candidates : Candidates[i].amount > 0})
       /\ expenses = call.before.expenses \o call.result.value.data.expenses

\* a call with a candidate of amount <= 0 skipped and another one stored
C5_Witness ==
  /\ ExtractDone
  /\ ~call.result.threw
  /\ \E i \in DOMAIN Candidates : Candidates[i].amount <= 0
  /\ Len(call.result.value.data.expenses) >= 1

InUnitInterval(c) == ~c.nan /\ 0 <= c.v /\ c.v <= 100

\* C6: in every successful extraction each candidate's confidence and the
\* aggregate confidence lie in [0, 1].
C6_ConfidenceInRange ==
  (ExecDone /\ call.result.success) =>
    /\ InUnitInterval(call.result.data.confidence)
    /\ \A i \in DOMAIN call.result.data.expenses :
         InUnitInterval(call.result.data.expenses[i].confidence)

Clamp(c) == IF c < 0 THEN 0 ELSE IF c > 100 THEN 100 ELSE c

\* C7: on the model path a supplied numeric confidence c becomes c clamped
\* into [0, 1] (a supplied 0 stays 0); 0.8 is used only when it is absent.
C7_ConfidenceClamped ==
  (ExecDone /\ call.result.success /\ call.result.path = "model") =>
    \A i \in DOMAIN call.result.data.expenses :
      LET given == Get(CleanParse(call.remote).value.expenses.items[i], "confidence")
      IN  /\ given.t = "number" =>
               call.result.data.expenses[i].confidence = Num(Clamp(given.n))
          /\ given.t = "undefined" =>
               call.result.data.expenses[i].confidence = Num(DefaultConfidence)

RECURSIVE TotalOf(_, _)
TotalOf(list, n) == IF n = 0 THEN 0 ELSE TotalOf(list, n - 1) + list[n].amount

FirstIndex(list, category) ==
  CHOOSE i \in DOMAIN list :
    /\ list[i].category = category
    /\ \A j \in 1..(i - 1) : list[j].category # category

\* C8: in every result of execute, summary.totalExpenses is the number of
\* candidates, summary.totalAmount the sum of their amounts, and
\* summary.categories their categories without duplicates, in order of first
\* appearance.
C8_SummaryConsistent ==
  (ExecDone /\ call.result.success) =>
    LET list == call.result.data.expenses
        summary == call.result.data.summary
    IN  /\ summary.totalExpenses = Len(list)
        /\ summary.totalAmount = TotalOf(list, Len(list))
        /\ {summary.categories[k] : k \in DOMAIN summary.categories}
             = {list[i].category : i \in DOMAIN list}
        /\ \A k, m \in DOMAIN summary.categories :
             k < m => FirstIndex(list, summary.categories[k])
                        < FirstIndex(list, summary.categories[m])

\* three candidates or two, with a category that repeats
C8_Witness ==
  /\ ExecDone
  /\ call.result.success
  /\ Len(call.result.data.expenses) >= 2
  /\ Len(call.result.data.summary.categories) < Len(call.result.data.expenses)

Vocabulary == {VALID_EXPENSE_CATEGORIES[i] : i \in DOMAIN VALID_EXPENSE_CATEGORIES}

\* C9: a label whose trimmed, lower-cased form is a vocabulary member
\* normalizes to exactly that member, any other label fails, and normalizing a
\* normalized value returns it unchanged.
C9_NormalizeCanonical ==
  NormDone =>
    /\ IF toLowerCase(trim(call.category)) \in Vocabulary
       THEN /\ ~call.result.threw
            /\ call.result.value = toLowerCase(trim(call.category))
       ELSE /\ call.result.threw
            /\ "value" \notin DOMAIN call.result
    /\ call.again =>
         /\ ~call.result.threw
         /\ call.result.value = call.category
         /\ call.result.value = toLowerCase(trim(call.label))

\* an upper-case, padded label normalized, and its result normalized again
C9_Witness ==
  /\ NormDone
  /\ call.again
  /\ call.label = <<" ", "A", "L", "I", "M", "E", "N", "T", "A", "Ç", "Ã", "O", " ">>
  /\ call.result.value = <<"a", "l", "i", "m", "e", "n", "t", "a", "ç", "ã", "o">>

\* C10: a label that is no vocabulary member fails with a ValidationError
\* whose message names the rejected value and lists all valid values.
C10_InvalidIsValidationError ==
  (NormDone /\ toLowerCase(trim(call.category)) \notin Vocabulary) =>
    /\ call.result.threw
    /\ call.result.error.name = "ValidationError"
    /\ includes(call.result.error.message, call.category)
    /\ \A v \in Vocabulary : includes(call.result.error.message, v)

\* C11: every request that extractExpenses hands to createExpense carries a
\* category of the vocabulary, and a candidate whose category fails
\* normalizeExpenseCategory is not among the requests handed over.
C11_HandedCategoryValid ==
  (ExtractDone /\ ~call.result.threw) =>
    /\ \A i \in DOMAIN call.result.handed : call.result.handed[i].category \in Vocabulary
    /\ Len(call.result.handed)
         = Cardinality({i \in DOMAIN Candidates :
                          toLowerCase(trim(Candidates[i].category)) \in Vocabulary})

\* a call with one candidate handed over under its normalized label
\* (Transporte as transporte) and another, of an unknown label, held back
C11_Witness ==
  /\ ExtractDone
  /\ ~call.result.threw
  /\ \E i \in DOMAIN Candidates : Candidates[i].category = <<"l", "i", "v", "r", "o", "s">>
  /\ \E i \in DOMAIN Candidates : Candidates[i].category = <<"T", "r", "a", "n", "s", "p", "o", "r", "t", "e">>
  /\ \E i \in DOMAIN call.result.handed : call.result.handed[i].category = <<"t", "r", "a", "n", "s", "p", "o", "r", "t", "e">>

\* the entries of the reply that the model path coerced
ReplyItems == CleanParse(call.remote).value.expenses.items

\* C12 as stated: on the model path an entry whose category is missing, empty
\* or a string outside the vocabulary yields a candidate of category outros.
C12_UnknownBecomesOutros ==
  (ExecDone /\ call.result.success /\ call.result.path = "model") =>
    \A i \in DOMAIN call.result.data.expenses :
      LET given == Get(ReplyItems[i], "category")
      IN  (\/ given.t = "undefined"
           \/ given.t = "string" /\ Len(given.s) = 0
           \/ given.t = "string" /\ toLowerCase(trim(given.s)) \notin Vocabulary)
          => call.result.data.expenses[i].category = <<"o", "u", "t", "r", "o", "s">>

\* C12 amended: on the model path an entry whose category is missing, null or
\* the empty string yields a candidate of category outros; a non-empty string
\* is kept as given, inside the vocabulary or not, and no entry is rejected.
C12_MissingBecomesOutros ==
  (ExecDone /\ call.result.success /\ call.result.path = "model") =>
    /\ Len(call.result.data.expenses) = Len(ReplyItems)
    /\ \A i \in DOMAIN call.result.data.expenses :
         LET given == Get(ReplyItems[i], "category")
         IN  /\ (\/ given.t \in {"undefined", "null"}
                 \/ given.t = "string" /\ Len(given.s) = 0)
                => call.result.data.expenses[i].category = <<"o", "u", "t", "r", "o", "s">>
             /\ (given.t = "string" /\ Len(given.s) > 0)
                => call.result.data.expenses[i].category = given.s

\* a reply with an empty and a null category, both coerced to outros
C12_Witness ==
  /\ ExecDone
  /\ call.result.success
  /\ call.result.path = "model"
  /\ Len(ReplyItems) = 2
  /\ Get(ReplyItems[1], "category") = JStr(<<>>)
  /\ Get(ReplyItems[2], "category") = JNull
  /\ call.result.data.expenses[1].category = <<"o", "u", "t", "r", "o", "s">>
  /\ call.result.data.expenses[2].category = <<"o", "u", "t", "r", "o", "s">>

\* the reply is a JSON object with an expenses array between an opening
\* fence, with or without the json tag, and a closing fence
IsFencedReply(r) ==
  /\ Len(r) >= 3
  /\ r[1].k = "fence"
  /\ r[Len(r)].k = "fence"
  /\ \E i \in 2..(Len(r) - 1) :
       /\ r[i].k = "json"
       /\ r[i].v.t = "object"
       /\ "expenses" \in DOMAIN r[i].v
       /\ r[i].v.expenses.t = "array"
       /\ \A j \in 2..(Len(r) - 1) : j # i => r[j].k \in {"ws", "jsonTag"}
       /\ \A j \in 2..(Len(r) - 1) : r[j].k = "jsonTag" => j = 2

\* C13: a valid {"expenses": [...]} reply wrapped in code fences, with or
\* without the json tag, is parsed on the model path.
C13_FencedReplyParsed ==
  (ExecDone /\ call.remote.ok /\ IsFencedReply(call.remote.content)) =>
    /\ call.result.success
    /\ call.result.path = "model"

\* the candidate passes normalizeExpenseCategory and validateExpenseData
Storable(c) ==
  /\ toLowerCase(trim(c.category)) \in Vocabulary
  /\ ~IsBlank(c.description)
  /\ c.amount > 0
  /\ ~IsBlank(c.currency)

\* C14: persistence is best-effort and sequential: the loop body runs for
\* every candidate whatever happened to the earlier ones, the call succeeds,
\* and the expenses it returns are exactly the candidates that could be
\* stored, in candidate order.
C14_BestEffortPersistence ==
  (ExtractDone /\ ~IsBlank(call.text)) =>
    /\ ~call.result.threw
    /\ call.result.value.success
    /\ call.result.attempted = Candidates
    /\ LET stored == SelectSeq(Candidates, Storable)
           persisted == call.result.value.data.expenses
       IN  /\ Len(persisted) = Len(stored)
           /\ \A k \in DOMAIN persisted :
                /\ persisted[k].description = stored[k].description
                /\ persisted[k].amount = stored[k].amount
                /\ persisted[k].currency = stored[k].currency
                /\ persisted[k].category = toLowerCase(trim(stored[k].category))
                /\ persisted[k].id = natToString(call.before.nextId + k - 1)

\* the first candidate was skipped and the second one stored
C14_Witness ==
  /\ ExtractDone
  /\ ~call.result.threw
  /\ Len(Candidates) = 2
  /\ ~Storable(Candidates[1])
  /\ Storable(Candidates[2])
  /\ Len(call.result.value.data.expenses) = 1
  /\ call.result.value.data.expenses[1].description = Candidates[2].description

HasDigit(text) == \E i \in DOMAIN text : IsDigit(text[i])

\* C15: for a text without a numeric token the fallback returns no candidate,
\* and the result built from it has the summary {0, 0, []} and aggregate
\* confidence 0.
C15_NoNumberNoCandidate ==
  (ExecDone /\ call.result.success /\ call.result.path = "fallback" /\ ~HasDigit(call.text)) =>
    /\ call.result.data.expenses = <<>>
    /\ call.result.data.summary
         = [totalExpenses |-> 0, totalAmount |-> 0, categories |-> <<>>]
    /\ call.result.data.confidence = Num(0)

\* the text oi went through the fallback after a prose reply
C15_Witness ==
  /\ ExecDone
  /\ call.text = <<"o", "i">>
  /\ call.remote.ok
  /\ CleanParse(call.remote).threw
  /\ call.result.path = "fallback"
  /\ call.result.data.summary.totalExpenses = 0

\* the parsed values of the numeric matches of a text, left to right
MatchValues(text) ==
  LET ms == moneyMatches(text, 1)
  IN  [i \in DOMAIN ms |-> matchAmount(text, ms[i])]

IsPositive(value) == ~value.nan /\ value.v > 0

\* C16: the fallback returns one candidate per numeric match of positive
\* value, in the order of the matches, each with the amount of its own match;
\* a match of value 0 is skipped and shifts nothing.  almoço 35,50 e uber 20
\* gives the amounts 35.50 and 20, in total 55.50; R$ 0 mercado 12 gives the
\* one candidate of 12 with the context of the 12.
C16_OneCandidatePerMatch ==
  (ExecDone /\ call.result.success /\ call.result.path = "fallback") =>
    LET list == call.result.data.expenses
        values == SelectSeq(MatchValues(call.text), IsPositive)
    IN  /\ Len(list) = Len(values)
        /\ \A k \in DOMAIN list : list[k].amount = values[k].v /\ list[k].amount > 0
        /\ call.text = <<"a", "l", "m", "o", "ç", "o", " ", "3", "5", ",", "5", "0", " ", "e", " ", "u", "b", "e", "r", " ", "2", "0">> =>
             /\ [k \in DOMAIN list |-> list[k].amount] = <<3550, 2000>>
             /\ call.result.data.summary.totalAmount = 5550
             /\ call.result.data.summary.totalExpenses = 2
             /\ list[1].description = <<"A", "l", "m", "o", "ç", "o", " ", "-", " ", "R", "$", " ", "3", "5", ".", "5", "0">>
             /\ list[2].description = <<"U", "b", "e", "r", " ", "-", " ", "R", "$", " ", "2", "0", ".", "0", "0">>
        /\ call.text = <<"R", "$", " ", "0", " ", "m", "e", "r", "c", "a", "d", "o", " ", "1", "2">> =>
             /\ [k \in DOMAIN list |-> list[k].amount] = <<1200>>
             /\ list[1].description = <<"M", "e", "r", "c", "a", "d", "o", " ", "-", " ", "R", "$", " ", "1", "2", ".", "0", "0">>
             /\ list[1].category = <<"s", "u", "p", "e", "r", "m", "e", "r", "c", "a", "d", "o">>

\* the fallback ran on a text with a zero match before a positive one
C16_Witness ==
  /\ ExecDone
  /\ call.text = <<"R", "$", " ", "0", " ", "m", "e", "r", "c", "a", "d", "o", " ", "1", "2">>
  /\ call.result.path = "fallback"
  /\ Len(MatchValues(call.text)) = 2
  /\ Len(call.result.data.expenses) = 1

\* C17: every candidate of the fallback has confidence 0.4, and the aggregate
\* confidence of an extraction that went through the fallback is 0.4 with at
\* least one candidate and 0 with none.
C17_FallbackConfidence ==
  (ExecDone /\ call.result.success /\ call.result.path = "fallback") =>
    /\ \A k \in DOMAIN call.result.data.expenses :
         call.result.data.expenses[k].confidence = Num(40)
    /\ call.result.data.confidence
         = IF Len(call.result.data.expenses) = 0 THEN Num(0) ELSE Num(40)

\* the fallback found two candidates after the model call failed
C17_Witness ==
  /\ ExecDone
  /\ ~call.remote.ok
  /\ call.result.path = "fallback"
  /\ Len(call.result.data.expenses) = 2
  /\ call.result.data.confidence = Num(40)

RECURSIVE ConfidenceTotal(_, _)
ConfidenceTotal(list, n) ==
  IF n = 0 THEN 0 ELSE ConfidenceTotal(list, n - 1) + list[n].confidence.v

\* C18: calculateConfidence returns 0 for an empty list and otherwise the
\* mean of the confidences rounded to two decimals: the result is a whole
\* number of hundredths at most half a hundredth away from the mean
\* (0.8 and 0.4 give 0.6).
C18_MeanRounded ==
  (call.op = "calculateConfidence" /\ call.pc = "done") =>
    LET n == Len(call.list)
        total == ConfidenceTotal(call.list, n)
        r == call.result
    IN  /\ ~r.nan
        /\ n = 0 => r.v = 0
        /\ n > 0 => /\ 2 * (n * r.v - total) <= n
                    /\ 2 * (total - n * r.v) <= n
        /\ call.list = <<[confidence |-> Num(80)], [confidence |-> Num(40)]>> => r.v = 60

\* a mean that is no whole number of hundredths was rounded up to the nearest
C18_Witness ==
  /\ call.op = "calculateConfidence"
  /\ call.pc = "done"
  /\ call.list = <<[confidence |-> Num(40)], [confidence |-> Num(40)],
                   [confidence |-> Num(45)]>>
  /\ call.result = Num(42)

OwnerOf(record) ==
  createdBy[CHOOSE n \in DOMAIN createdBy : natToString(n) = record.id]

\* C19: a stored expense is scoped to the user it was created for: another
\* user's getExpense, getAllExpenses and getExpenseSummary do not return or
\* count it, and another user's updateExpense and deleteExpense do not change
\* or remove it.
C19_UserScoped ==
  /\ (call.op = "getExpense" /\ call.result # Missing) =>
       OwnerOf(call.result) = call.user
  /\ call.op = "getAllExpenses" =>
       \A i \in DOMAIN call.result : OwnerOf(call.result[i]) = call.user
  /\ call.op = "getExpenseSummary" =>
       call.result.totalExpenses
         = Cardinality({i \in DOMAIN expenses : OwnerOf(expenses[i]) = call.user})
  /\ call.op \in {"updateExpense", "deleteExpense"} =>
       \A i \in DOMAIN call.before.expenses :
         OwnerOf(call.before.expenses[i]) # call.user =>
           \E j \in DOMAIN expenses : expenses[j] = call.before.expenses[i]


FallbackDone == call.op = "fallbackExtraction" /\ call.pc = "done"

\* a description keyword occurs in one of the two segments around the amount
HasDescriptionKeyword ==
  \E i \in DOMAIN DescriptionKeywords :
    \/ includes(toLowerCase(call.before), DescriptionKeywords[i])
    \/ includes(toLowerCase(call.after), DescriptionKeywords[i])

\* the words longer than two characters of a segment, in lower case
LongWordsOf(segment) == SelectSeq(splitWords(trim(toLowerCase(segment))), IsLongWord)

\* the description of the only candidate is the given prefix and the amount
DescriptionIs(prefix) ==
  /\ Len(call.result) = 1
  /\ call.result[1].description = prefix \o <<" ", "-", " ", "R", "$", " ", "3", "0", ".", "0", "0">>

\* C21 as stated: without a description keyword the prefix is the first long
\* word of the segment after the match, never a word of the segment before it,
\* and the generic label when the segment after the match has no long word.
C21_TrailingWordOnly ==
  (FallbackDone /\ ~HasDescriptionKeyword) =>
    IF Len(LongWordsOf(call.after)) > 0
    THEN DescriptionIs(capitalize(LongWordsOf(call.after)[1]))
    ELSE DescriptionIs(<<"G", "a", "s", "t", "o">>)

\* C21: without a description keyword in the local context, the prefix is the
\* first word longer than two characters of the local context, the segment
\* before the match first and the segment after it second, in lower case with
\* a capital initial; the generic label is used when neither has such a word.
C21_FirstLongWordOfContext ==
  (FallbackDone /\ ~HasDescriptionKeyword) =>
    IF Len(LongWordsOf(call.before)) > 0
    THEN DescriptionIs(capitalize(LongWordsOf(call.before)[1]))
    ELSE IF Len(LongWordsOf(call.after)) > 0
    THEN DescriptionIs(capitalize(LongWordsOf(call.after)[1]))
    ELSE DescriptionIs(<<"G", "a", "s", "t", "o">>)

\* a long word before the amount and another after it: the one before wins
C21_Witness ==
  /\ FallbackDone
  /\ call.before = <<"p", "i", "z", "z", "a">>
  /\ call.after = <<"l", "i", "v", "r", "o">>
  /\ DescriptionIs(<<"P", "i", "z", "z", "a">>)

\* a keyword of the category at index i occurs in one of the two segments
CategoryOccurs(i) ==
  \E k \in DOMAIN categoryKeywords[i].keywords :
    \/ includes(toLowerCase(call.before), categoryKeywords[i].keywords[k])
    \/ includes(toLowerCase(call.after), categoryKeywords[i].keywords[k])

\* C22: the category of a fallback candidate is the first category, in the
\* declaration order of the category-to-keywords mapping, with a keyword in
\* the segment before or after the match, and outros when no category has
\* one, whatever keyword the description was taken from.
C22_FirstCategoryWins ==
  FallbackDone =>
    /\ Len(call.result) = 1
    /\ \A i \in DOMAIN categoryKeywords :
         (call.result[1].category = categoryKeywords[i].category) <=>
           (CategoryOccurs(i) /\ \A j \in 1..(i - 1) : ~CategoryOccurs(j))
    /\ (call.result[1].category = <<"o", "u", "t", "r", "o", "s">>) <=>
         (\A i \in DOMAIN categoryKeywords : ~CategoryOccurs(i))

\* keywords of two categories, the later one first in the text and chosen for
\* the description: the category is the earlier one of the mapping
C22_Witness ==
  /\ FallbackDone
  /\ call.before = <<"c", "i", "n", "e", "m", "a">>
  /\ call.after = <<"u", "b", "e", "r">>
  /\ DescriptionIs(<<"U", "b", "e", "r">>)
  /\ call.result[1].category = <<"t", "r", "a", "n", "s", "p", "o", "r", "t", "e">>

\* C25: every candidate of the fallback extraction carries a category of the
\* vocabulary, which the strict normalization before persistence accepts.
C25_FallbackCategoryValid ==
  FallbackDone =>
    \A k \in DOMAIN call.result :
      /\ call.result[k].category \in Vocabulary
      /\ ~normalizeExpenseCategory(call.result[k].category).threw

\* a candidate without any keyword, given the generic category
C25_Witness ==
  /\ FallbackDone
  /\ call.before = <<"p", "i", "z", "z", "a">>
  /\ Len(call.result) = 1
  /\ call.result[1].category = <<"o", "u", "t", "r", "o", "s">>
  /\ ~normalizeExpenseCategory(call.result[1].category).threw

\* C24: in every success response of extractExpenses the summary counts the
\* expenses of the response and totals their amounts, also when candidates
\* were skipped.
C24_SummaryDescribesReturned ==
  (ExtractDone /\ ~call.result.threw) =>
    /\ call.result.value.data.summary.totalExpenses
         = Len(call.result.value.data.expenses)
    /\ call.result.value.data.summary.totalAmount
         = TotalOf(call.result.value.data.expenses,
                   Len(call.result.value.data.expenses))

\* C23: after any sequence of createExpense, updateExpense and deleteExpense
\* calls every record of the store has a canonical category of the vocabulary
\* and an amount greater than 0.
C23_StoreRecordsValid ==
  \A i \in DOMAIN expenses :
    /\ expenses[i].category \in Vocabulary
    /\ expenses[i].amount # NotANumber
    /\ expenses[i].amount > 0

\* the ids of the records of a store
IdsOf(records) == {records[i].id : i \in DOMAIN records}

StoreUnchanged == expenses = call.before.expenses /\ nextId = call.before.nextId

\* a create request that validation must refuse
InvalidCreate(data) ==
  \/ IsBlank(data.description)
  \/ data.amount <= 0
  \/ IsBlank(data.category)
  \/ toLowerCase(data.category) \notin Vocabulary
  \/ IsBlank(data.currency)

\* an update request that validation must refuse
InvalidUpdate(data) ==
  \/ "description" \in DOMAIN data /\ IsBlank(data.description)
  \/ "amount" \in DOMAIN data /\ data.amount # NotANumber /\ data.amount <= 0
  \/ "category" \in DOMAIN data /\ IsBlank(data.category)
  \/ "category" \in DOMAIN data /\ toLowerCase(data.category) \notin Vocabulary
  \/ "currency" \in DOMAIN data /\ IsBlank(data.currency)

\* C30: a createExpense or updateExpense that fails validation, and an
\* updateExpense or deleteExpense of an unknown id, leaves the records and the
\* next id as they were; the ids in the store are distinct, and a new record
\* takes an id that no record had before, also after a delete.
C30_FailureLeavesStore ==
  /\ (call.op = "createExpense" /\ InvalidCreate(call.data)) =>
       call.result.threw /\ StoreUnchanged
  /\ (call.op = "createExpense" /\ ~call.result.threw) =>
       /\ call.result.value.id = natToString(call.before.nextId)
       /\ call.result.value.id \notin IdsOf(call.before.expenses)
       /\ nextId = call.before.nextId + 1
  /\ (call.op = "updateExpense" /\ call.id \in IdsOf(call.before.expenses)
        /\ InvalidUpdate(call.data)) =>
       call.result.threw /\ StoreUnchanged
  /\ (call.op = "updateExpense" /\ call.id \notin IdsOf(call.before.expenses)) =>
       ~call.result.threw /\ call.result.value = JNull /\ StoreUnchanged
  /\ (call.op = "deleteExpense" /\ call.id \notin IdsOf(call.before.expenses)) =>
       ~call.result.value /\ StoreUnchanged
  /\ \A i, j \in DOMAIN expenses : expenses[i].id = expenses[j].id => i = j
  /\ \A i \in DOMAIN expenses : \E n \in 1..(nextId - 1) : expenses[i].id = natToString(n)

\* a create refused for its amount while the store holds a record, the next
\* id still free
C30_Witness ==
  /\ call.op = "createExpense"
  /\ call.data.amount = 0
  /\ call.result.threw
  /\ Len(expenses) = 1
  /\ StoreUnchanged
  /\ nextId = 2

\* C28: for every key and every max of at least 1, at most max requests are
\* granted with the same reset time; a request that finds the key's count at
\* max and arrives no later than the reset time is denied with remaining 0
\* and leaves the count and the reset time as they were; the remaining
\* reported is never negative.
C28_AtMostMaxPerWindow ==
  /\ \A key \in DOMAIN shadow.granted :
       shadow.granted[key].n <= rateLimiter.config.max
  /\ (/\ call.op = "isAllowed"
      /\ call.key \in DOMAIN call.before
      /\ call.before[call.key].count >= rateLimiter.config.max
      /\ call.time <= call.before[call.key].resetTime) =>
       /\ ~call.result.allowed
       /\ call.result.remaining = 0
       /\ call.result.resetTime = call.before[call.key].resetTime
       /\ rateLimiter.requests[call.key] = call.before[call.key]
  /\ call.op = "isAllowed" => call.result.remaining >= 0

\* a request denied at the very instant of the reset time, after max = 2
\* requests were granted in the window
C28_Witness ==
  /\ call.op = "isAllowed"
  /\ rateLimiter.config.max = 2
  /\ call.key \in DOMAIN call.before
  /\ call.before[call.key].count = 2
  /\ call.time = call.before[call.key].resetTime
  /\ ~call.result.allowed
  /\ shadow.granted[call.key].n = 2

\* C29: whatever cleanup runs are interleaved, every isAllowed call returns
\* what the same calls return on a limiter that is never cleaned, and cleanup
\* removes no entry whose reset time has not passed.
C29_CleanupUnobservable ==
  /\ call.op = "isAllowed" => call.result = call.expected
  /\ call.op = "cleanup" =>
       \A key \in DOMAIN call.before :
         call.time <= call.before[key].resetTime =>
           /\ key \in DOMAIN rateLimiter.requests
           /\ rateLimiter.requests[key] = call.before[key]

\* a cleanup removed an expired entry that the uncleaned limiter still holds,
\* and the next request of the key was answered alike by both
C29_Witness ==
  /\ call.op = "isAllowed"
  /\ call.key \notin DOMAIN call.before
  /\ call.key \in DOMAIN shadow.requests
  /\ shadow.requests[call.key].count = 1
  /\ shadow.requests[call.key].resetTime = now + rateLimiter.config.windowMs
  /\ now > rateLimiter.config.windowMs
  /\ call.result = call.expected

\* C26: a message with key.fromMe = true is answered with Message from bot
\* skipped and calls neither createUser nor the extraction, and a text
\* message with fromMe false or absent is not answered as skipped.
C26_BotMessagesSkipped ==
  \A t \in DOMAIN tasks :
    /\ (fromMeOf(tasks[t].body) /\ Len(tasks[t].messageText) > 0) =>
         /\ tasks[t].pc = "done"
         /\ tasks[t].response.message = "Message from bot skipped"
         /\ tasks[t].steps = {}
    /\ (~fromMeOf(tasks[t].body) /\ Len(tasks[t].messageText) > 0) =>
         ~(tasks[t].pc = "done"
             /\ tasks[t].response.message = "Message from bot skipped")

\* C27: under any interleaving of createUser calls for one number, no call
\* fails, the calls that returned gave the same user, and the table holds at
\* most one row for the number.
C27_GetOrCreate ==
  /\ \A t \in DOMAIN tasks : tasks[t].createUser # "threw"
  /\ \A t, u \in DOMAIN tasks :
       (/\ tasks[t].createUser = "returned"
        /\ tasks[u].createUser = "returned"
        /\ tasks[t].whatsappNumber = tasks[u].whatsappNumber) =>
         tasks[t].user = tasks[u].user
  /\ \A i, j \in DOMAIN users :
       users[i].whatsappNumber = users[j].whatsappNumber => i = j
====
